---- MODULE Spec2Model ----
(***************************************************************************)
(* Tile cache protocol of Natron's image engine (Engine/ImagePrivate.cpp). *)
(*                                                                         *)
(* ImagePrivate::initTileAndFetchFromCache is modelled as a process per    *)
(* image: every call into the tile cache (Cache::get, Cache::removeEntry,  *)
(* the destruction of a CacheEntryLocker) is one atomic step, the code     *)
(* between two such calls runs with the call that follows it.              *)
(*                                                                         *)
(* insertTilesInCache, the bounds of the tiles of the grid, the tile by     *)
(* tile copies with their worker threads, checkIfCopyToTempImageIsNeeded   *)
(* and halveImage each have their own variables and specification; a       *)
(* specification leaves the variables of the other operations idle.        *)
(*                                                                         *)
(* The tile cache itself (Cache, CacheEntryLocker), Image::create and      *)
(* Image::downscaleMipMap are not part of ImagePrivate.cpp; they are       *)
(* modelled from the specification of the engine (sections 2, 4.1, 4.2, 6) *)
(***************************************************************************)
EXTENDS Integers, Sequences, FiniteSets, TLC

\* Largest mip map level an image is requested at.
MaxMip == 2
\* Largest number of entries the tile cache holds when the images are created.
MaxCached == 2
\* The images (each with the thread that initialises its tile).
Img == {1, 2}

\* layer.getNumComponents() of the planes the images are made of.
LayerComponents == {1, 2}

StorageModes == {"Disk", "RAM", "GLTex", "None"}
CachePolicies == {"None", "WriteOnly", "ReadWrite"}
BufferLayouts == {"MonoChannelTiled", "RGBACoplanarFullRect", "RGBAPackedFullRect"}

\* Fields of the tile key that are the same for all the images of the model.
PlaneID == "plane"
ProxyScale == <<1, 1>>
BitDepth == "Float"
TileRect == [x1 |-> 0, y1 |-> 0, x2 |-> 4, y2 |-> 4]
NullRect == [x1 |-> 0, y1 |-> 0, x2 |-> 0, y2 |-> 0]

VARIABLES
    image,      \* image[i]: the fields of ImagePrivate the tile initialiser reads
    tiles,      \* tiles[i]: perChannelTile of the tile being initialised
    frame,      \* frame[i]: locals of the running initTileAndFetchFromCache call
    cached,     \* tile cache: the keys that have an entry
    computing,  \* tile cache: the keys a live must-compute locker is granted for
    fault,      \* how the process died, "none" while it runs
    probed,     \* history: probed[i][c], the (key, status) probes of the lookup loop
    cacheOps,   \* history: cacheOps[i], number of calls on the cache or on cachedBuffer
    cache0,     \* history: the cache content when the images were created
    \* insertTilesInCache
    tileMap,    \* ImagePrivate::tiles: for each tile its perChannelTile
    insertPolicy, \* cachePolicy of the image whose tiles are inserted
    renderClone, \* TRUE when renderClone.lock() gives an effect
    aborted,    \* what effect->isRenderAborted() answers now
    insertCall, \* locals of the running insertTilesInCache call
    insertLog,  \* history: the channels visited, with the status read and what was done
    tileMap0,   \* history: tileMap when insertTilesInCache was called
    \* the tile grid
    gridImage,  \* bufferFormat, originalBounds, tileSizeX, tileSizeY of an image
    gridTiles,  \* the tiles initialised so far: their coord and tileBounds
    \* the tile by tile copies
    copyArgs,   \* direction, storages, the tiled image, args.roi, number of threads
    copyTiles,  \* ImagePrivate::tiles of the tiled image: coord and tileBounds
    copyCall,   \* locals of the running copy function
    copyWorkers, \* for each thread of the processor, the locals of multiThreadFunction
    copyWrites, \* history: the copyRectangle calls made
    copyPixels, \* the pixels of the untiled image and of the tiles
    \* checkIfCopyToTempImageIsNeeded
    tempArgs,   \* fromImage, toImage and roi of the call
    tempResult, \* the image the call returns
    tempChain,  \* the temporary images created until the call returns, in order
    \* halveImage
    halveArgs,  \* nComps, bitDepth, srcBounds, dstBounds, layout and content of the source
    halveCall,  \* locals of the running halveImageForInternal call
    halveDst,   \* the destination buffer: the elements written so far
    \* checkForNaNs
    nanArgs,    \* nComps, bitDepth, bounds, roi and layout of the call
    nanBuf,     \* the buffers of the image: the value of each element
    nanCall,    \* locals of the running checkForNaNsInternal call
    nanLog,     \* history: for each scan made, the buffers before and after, the result
    \* initFromExternalBuffer
    extArgs,    \* bitdepth, bounds, layer component count, storage and externalBuffer of args
    extTiles,   \* ImagePrivate::tiles of the image: the buffer and the bounds of each tile
    extCall     \* how the call ended

\* The variables of insertTilesInCache.
insertVars == <<tileMap, insertPolicy, renderClone, aborted, insertCall, insertLog, tileMap0>>

\* The variables of the tile grid.
gridVars == <<gridImage, gridTiles>>

\* The variables of the tile by tile copies.
copyVars == <<copyArgs, copyTiles, copyCall, copyWorkers, copyWrites, copyPixels>>

\* The variables of checkIfCopyToTempImageIsNeeded.
tempVars == <<tempArgs, tempResult, tempChain>>

\* The variables of halveImage.
halveVars == <<halveArgs, halveCall, halveDst>>

\* The variables of checkForNaNs.
nanVars == <<nanArgs, nanBuf, nanCall, nanLog>>

\* The variables of initFromExternalBuffer.
extVars == <<extArgs, extTiles, extCall>>

\* The variables only initTileAndFetchFromCache uses, and those of the cache.
initTileVars == <<image, tiles, frame, probed, cacheOps, cache0>>
cacheVars == <<cached, computing, fault>>

\* The variables initTileAndFetchFromCache, insertTilesInCache and the tile
\* grid leave alone.
otherVars == <<insertVars, gridVars, copyVars, tempVars, halveVars, nanVars, extVars>>
insertOthers == <<initTileVars, gridVars, copyVars, tempVars, halveVars, nanVars, extVars>>
gridOthers == <<initTileVars, cacheVars, insertVars, copyVars, tempVars, halveVars, nanVars, extVars>>
copyOthers == <<initTileVars, computing, cached, insertVars, gridVars, tempVars, halveVars, nanVars, extVars>>
tempOthers == <<initTileVars, cacheVars, insertVars, gridVars, copyVars, halveVars, nanVars, extVars>>
halveOthers == <<initTileVars, computing, cached, insertVars, gridVars, copyVars, tempVars, nanVars, extVars>>
nanOthers == <<initTileVars, computing, cached, insertVars, gridVars, copyVars, tempVars, halveVars,
               extVars>>
extOthers == <<initTileVars, cacheVars, insertVars, gridVars, copyVars, tempVars, halveVars, nanVars>>

vars == <<image, tiles, frame, cached, computing, fault, probed, cacheOps, cache0, otherVars>>

----------------------------------------------------------------------------
\* ImageTileKey

ImageTileKey(nodeHash, channelName, proxyScale, mipMapLevel, isDraft, bitdepth, tileBounds) ==
    [nodeHash |-> nodeHash, channelName |-> channelName, proxyScale |-> proxyScale,
     mipMapLevel |-> mipMapLevel, isDraft |-> isDraft, bitDepth |-> bitdepth,
     tileBounds |-> tileBounds]

\* A null ImageTileKeyPtr.
NoKey == ImageTileKey(0, <<"", -2>>, <<0, 0>>, -1, FALSE, "", NullRect)

\* A null CacheEntryLockerPtr.
NoLocker == [key |-> NoKey, status |-> "null"]

\* Pixels: the content of the cache entry `origin`, halved `halved` times.
NoData == [origin |-> NoKey, halved |-> 0]

----------------------------------------------------------------------------
\* Tile cache (Cache::get, CacheEntryLocker, Cache::removeEntry)

\* CacheEntryLocker::getStatus of the locker Cache::get returns for key.
CacheGetStatus(key, entries, writers) ==
    IF key \in entries THEN "Cached"
    ELSE IF key \in writers THEN "ComputationPending"
    ELSE "MustCompute"

\* The keys under computation after Cache::get(key).
CacheGetWriters(key, entries, writers) ==
    IF CacheGetStatus(key, entries, writers) = "MustCompute"
    THEN writers \cup {key} ELSE writers

\* The keys under computation after the last reference to locker is dropped.
ReleaseLocker(locker, writers) ==
    IF locker.status = "MustCompute" THEN writers \ {locker.key} ELSE writers

\* Cache::removeEntry
RemoveEntry(key, entries) == entries \ {key}

----------------------------------------------------------------------------
\* initTileAndFetchFromCache: the pure parts

\* Lines 42-56: one buffer per enabled channel, or a single packed buffer.
RECURSIVE EnabledFrom(_, _)
EnabledFrom(im, nc) ==
    IF nc >= im.numComponents THEN <<>>
    ELSE IF nc \in im.enabledChannels THEN <<nc>> \o EnabledFrom(im, nc + 1)
    ELSE EnabledFrom(im, nc + 1)

\* Variant: a buffer for every channel of the layer, enabled or not.
channelIndicesOfLayer(im) ==
    IF im.bufferFormat = "MonoChannelTiled"
    THEN [k \in 1..im.numComponents |-> k - 1] ELSE <<-1>>

channelIndices(im) ==
    IF im.bufferFormat = "MonoChannelTiled" THEN EnabledFrom(im, 0) ELSE <<-1>>

\* Lines 83-94: planeID + "." + channel for a mono channel tile, else planeID.
channelName(im, channelIndex) ==
    IF im.bufferFormat = "MonoChannelTiled" THEN <<PlaneID, channelIndex>> ELSE <<PlaneID, -1>>

\* Lines 105-141: the storage allocated for the channel.
NewBuffer(im, channelIndex) ==
    [storage |-> im.storage,
     allocated |-> im.tilesAllocated,
     bounds |-> IF im.storage = "Disk" THEN NullRect ELSE TileRect,
     numComponents |-> IF im.storage = "Disk" \/ (im.storage = "RAM" /\ channelIndex # -1)
                       THEN 1 ELSE im.numComponents,
     bitDepth |-> BitDepth,
     key |-> NoKey,
     data |-> NoData]

\* Line 107: only the disk storage is a CacheImageTileStorage.
cachedBufferSet(im) == im.storage = "Disk"

\* Lines 155-163
requestedScaleKey(im, channelIndex) ==
    ImageTileKey(im.nodeHash, channelName(im, channelIndex), ProxyScale,
                 im.mipMapLevel, im.isDraftImage, BitDepth, TileRect)

\* Variant: the lookup is entered without testing the cache policy.
AfterAllocationUntested(im) ==
    IF im.cachePolicy = "WriteOnly" THEN "writeOnlyGet" ELSE "lookup"

\* Lines 156, 169, 177: where the call goes once the buffer is made.
AfterAllocation(im) ==
    IF im.cachePolicy = "WriteOnly" THEN "writeOnlyGet"
    ELSE IF im.cachePolicy = "ReadWrite" \/ im.cachePolicy = "WriteOnly" THEN "lookup"
    ELSE "next"

\* Variant: the wrong status is tested, the cached entry stays.
MustRemoveEntryMustCompute(locker) == locker.status = "MustCompute"

\* Line 171: the entry found by the write only probe must be removed.
MustRemoveEntry(locker) == locker.status = "Cached"

\* Lines 182-190
CanDownscale(im) == im.storage = "RAM" \/ im.storage = "Disk"

\* Variant: the requested level is the only one looked up.
nMipMapLookupsOne(im) == 1

nMipMapLookups(im) ==
    IF ~CanDownscale(im) THEN 1
    ELSE IF im.mipMapLevel # 0 THEN 2 ELSE 1

\* Variant: every storage is looked up at the requested level first.
firstLookupLevelRequested(im) == im.mipMapLevel

firstLookupLevel(im) ==
    IF ~CanDownscale(im) THEN 0 ELSE im.mipMapLevel

\* Line 198
lookupLevel(im, mipmap_i) == IF mipmap_i = 0 THEN firstLookupLevel(im) ELSE 0

\* Variant: the draft tile is looked up whatever the image.
nDraftLookupsBoth(im) == 2

\* Line 201
nDraftLookups(im) == IF im.isDraftImage THEN 2 ELSE 1

\* Variant: the draft tile is looked up first.
useDraftFirst(draft_i) == draft_i = 0

\* Line 205
useDraft(draft_i) == draft_i # 0

\* Lines 207-213
keyToReadCache(im, channelIndex, mipmap_i, draft_i) ==
    ImageTileKey(im.nodeHash, channelName(im, channelIndex), ProxyScale,
                 lookupLevel(im, mipmap_i), useDraft(draft_i), BitDepth, TileRect)

\* Line 221
IsRequestedScale(im, mipmap_i, draft_i) ==
    useDraft(draft_i) = im.isDraftImage /\ lookupLevel(im, mipmap_i) = im.mipMapLevel

\* Lines 234-236
MustDownscale(im, mipmap_i) ==
    CanDownscale(im) /\ lookupLevel(im, mipmap_i) # firstLookupLevel(im)

\* Variant: a single halving whatever the level.
downscaleLevelsOne(im, mipmap_i) == 1

\* Line 239
downscaleLevels(im, mipmap_i) == firstLookupLevel(im) - lookupLevel(im, mipmap_i)

----------------------------------------------------------------------------
\* initFromExternalBuffer (lines 285-345): TRUE when no std::bad_alloc is thrown.
\* nTiles is tiles.size() of the image being created around the buffer.

initFromExternalBuffer(args, externalBuffer, nTiles) ==
    /\ nTiles = 1
    /\ args.bitdepth = externalBuffer.bitDepth
    /\ CASE externalBuffer.storage = "GLTex" ->
              /\ args.storage = "GLTex"
              /\ externalBuffer.bounds = args.bounds
         [] externalBuffer.storage = "Disk" ->
              /\ args.storage = "Disk"
              /\ externalBuffer.bounds = args.bounds
              /\ args.numComponents = 1
         [] externalBuffer.storage = "RAM" ->
              /\ args.storage = "RAM"
              /\ externalBuffer.bounds = args.bounds
              /\ externalBuffer.numComponents = args.numComponents
         [] OTHER -> FALSE

\* Lines 245-255: the arguments of the full scale view made around the buffer.
tmpArgs(im, buffer) ==
    [bounds |-> TileRect,
     bufferFormat |-> "RGBAPackedFullRect",
     numComponents |-> IF Len(channelIndices(im)) > 1 THEN 1 ELSE im.numComponents,
     bitdepth |-> BitDepth,
     mipMapLevel |-> im.mipMapLevel,
     storage |-> buffer.storage]

\* Image::create of a packed full rect image: a single tile.
PackedImageTiles == 1

\* Image::downscaleMipMap: the buffer of the image halved `levels` times.
downscaleMipMap(buffer, levels) ==
    [buffer EXCEPT !.key = NoKey, !.allocated = TRUE,
                   !.data = [origin |-> buffer.data.origin, halved |-> buffer.data.halved + levels]]

\* CacheImageTileStorage::setKey
setKey(buffer, key) ==
    IF buffer.storage = "Disk" THEN [buffer EXCEPT !.key = key, !.bounds = key.tileBounds]
    ELSE buffer

\* The storage handed to Cache::get after the cache reported its entry cached.
FetchEntry(buffer, key) ==
    IF buffer.storage = "Disk"
    THEN [buffer EXCEPT !.allocated = TRUE, !.data = [origin |-> key, halved |-> 0]]
    ELSE buffer

----------------------------------------------------------------------------
\* State of the images and of their calls

\* A default constructed Image::MonoChannelTile.
NoBuffer ==
    [storage |-> "None", allocated |-> FALSE, bounds |-> NullRect, numComponents |-> 0,
     bitDepth |-> BitDepth, key |-> NoKey, data |-> NoData]

MonoChannelTile == [channelIndex |-> -2, buffer |-> NoBuffer, entryLocker |-> NoLocker]

\* The configurations an image is created with.
ImageConfigs ==
    {im \in [bufferFormat : BufferLayouts, storage : StorageModes, cachePolicy : CachePolicies,
             mipMapLevel : 0..MaxMip, isDraftImage : BOOLEAN, numComponents : LayerComponents,
             enabledChannels : SUBSET (0..1), tilesAllocated : BOOLEAN, nodeHash : {1}] :
        /\ im.enabledChannels # {}
        /\ im.enabledChannels \subseteq 0..(im.numComponents - 1)
        /\ im.bufferFormat # "MonoChannelTiled" => im.enabledChannels = 0..(im.numComponents - 1)}

\* An image that was never created.
NoImage ==
    [bufferFormat |-> "RGBAPackedFullRect", storage |-> "None", cachePolicy |-> "None",
     mipMapLevel |-> 0, isDraftImage |-> FALSE, numComponents |-> 1, enabledChannels |-> {0},
     tilesAllocated |-> FALSE, nodeHash |-> 0]

\* The keys a call for image im can probe.
KeysOf(im) ==
    {ImageTileKey(im.nodeHash, channelName(im, channelIndices(im)[k]), ProxyScale, l, d,
                  BitDepth, TileRect) :
        k \in 1..Len(channelIndices(im)), l \in {0, im.mipMapLevel}, d \in BOOLEAN}

NewFrame(pc) ==
    [pc |-> pc, c |-> 1, mipmap_i |-> 0, draft_i |-> 0, isCached |-> FALSE,
     requestedScaleLocker |-> NoLocker, locker |-> NoLocker, round |-> 1]

Running == fault = "none"

\* The channel the call of image i works on.
ThisChannelIndex(i) == channelIndices(image[i])[frame[i].c]
ThisChannelTile(i) == tiles[i][frame[i].c]
UsesCache(i) == image[i].cachePolicy # "None"

\* Line 280: on to the next channel, or return.
NextChannel(fr, im) ==
    IF fr.c < Len(channelIndices(im))
    THEN [NewFrame("channel") EXCEPT !.c = fr.c + 1, !.round = fr.round]
    ELSE [NewFrame("returned") EXCEPT !.c = fr.c, !.round = fr.round]

\* Variant: requestedScaleLocker does not retain the locker.
DroppedUnretained(locker, other, writers) ==
    IF locker # NoLocker THEN ReleaseLocker(locker, writers) ELSE writers

\* The locker a shared pointer gives up when it is assigned or destroyed:
\* it is released unless `other` still refers to it.
Dropped(locker, other, writers) ==
    IF locker # NoLocker /\ locker # other THEN ReleaseLocker(locker, writers) ELSE writers

\* The process is killed: its images, calls and lockers are gone, the entries
\* of the cache stay.
Die(how) ==
    /\ fault' = how
    /\ tiles' = [i \in Img |-> <<>>]
    /\ frame' = [i \in Img |-> IF frame[i].pc = "absent" THEN frame[i] ELSE NewFrame("dead")]
    /\ computing' = {}
    /\ probed' = [i \in Img |-> <<>>]
    /\ cacheOps' = [i \in Img |-> 0]
    /\ UNCHANGED <<image, cached, cache0, otherVars>>

----------------------------------------------------------------------------
\* initTileAndFetchFromCache: the steps

\* Lines 40-165: the buffer of the channel is made and, with a cache policy,
\* the key of the requested scale is set on cachedBuffer.
BeginChannel(i) ==
    /\ Running
    /\ frame[i].pc = "channel"
    /\ image[i].storage # "None"
    /\ LET im == image[i]
           fr == frame[i]
           ci == channelIndices(im)
           base == IF fr.c = 1 THEN [k \in 1..Len(ci) |-> MonoChannelTile] ELSE tiles[i]
           buf == NewBuffer(im, ci[fr.c])
           key == requestedScaleKey(im, ci[fr.c])
       IN /\ tiles' = [tiles EXCEPT ![i] =
                 [base EXCEPT ![fr.c] =
                     [channelIndex |-> ci[fr.c],
                      buffer |-> IF UsesCache(i) /\ cachedBufferSet(im) THEN setKey(buf, key) ELSE buf,
                      entryLocker |-> NoLocker]]]
          /\ frame' = [frame EXCEPT ![i] =
                 IF AfterAllocation(im) = "next" THEN NextChannel(fr, im)
                 ELSE [fr EXCEPT !.pc = AfterAllocation(im)]]
          /\ cacheOps' = [cacheOps EXCEPT ![i] = IF UsesCache(i) THEN @ + 1 ELSE @]
          /\ probed' = [probed EXCEPT ![i] = IF fr.c = 1 THEN [k \in 1..Len(ci) |-> <<>>] ELSE @]
    /\ UNCHANGED <<image, cached, computing, fault, cache0, otherVars>>

\* Lines 137-147: std::bad_alloc leaves the call (no storage mode, or
\* allocateMemory fails).
BadAlloc(i) ==
    /\ Running
    /\ frame[i].pc = "channel"
    /\ image[i].storage = "None" \/ image[i].tilesAllocated
    /\ frame' = [frame EXCEPT ![i].pc = "threw"]
    /\ UNCHANGED <<image, tiles, cached, computing, fault, probed, cacheOps, cache0, otherVars>>

\* Lines 164, 170, 216, 219, 275: cachedBuffer is dereferenced, or handed to the
\* cache, while it is null. The behaviour is undefined: the process dies here,
\* or the call goes on with the key it has built (the other actions).
NullDereference(i) ==
    /\ Running
    /\ UsesCache(i) /\ ~cachedBufferSet(image[i])
    /\ \/ frame[i].pc = "channel" /\ image[i].storage # "None"
       \/ frame[i].pc \in {"writeOnlyGet", "writeOnlyEnd", "lookup", "noHit"}
    /\ Die("nullDereference")

\* Lines 138, 215, 274: an assertion fails in a build that keeps assertions.
AssertionFailure(i) ==
    /\ Running
    /\ \/ frame[i].pc = "channel" /\ image[i].storage = "None"
       \/ frame[i].pc = "lookup" /\ ~cachedBufferSet(image[i])
       \/ frame[i].pc = "noHit" /\ frame[i].requestedScaleLocker = NoLocker
    /\ Die("assertion")

\* Line 170: write only, the requested key is probed.
WriteOnlyGet(i) ==
    /\ Running
    /\ frame[i].pc = "writeOnlyGet"
    /\ LET key == requestedScaleKey(image[i], ThisChannelIndex(i))
       IN /\ frame' = [frame EXCEPT ![i].pc = "writeOnlyEnd",
                                    ![i].locker = [key |-> key,
                                                   status |-> CacheGetStatus(key, cached, computing)]]
          /\ computing' = CacheGetWriters(key, cached, computing)
    /\ cacheOps' = [cacheOps EXCEPT ![i] = @ + 1]
    /\ UNCHANGED <<image, tiles, cached, fault, probed, cache0, otherVars>>

\* Lines 171-174: an entry that is cached is removed, and the locker goes out of scope.
WriteOnlyEnd(i) ==
    /\ Running
    /\ frame[i].pc = "writeOnlyEnd"
    /\ LET locker == frame[i].locker
       IN /\ cached' = IF MustRemoveEntry(locker) THEN RemoveEntry(locker.key, cached) ELSE cached
          /\ computing' = ReleaseLocker(locker, computing)
          /\ cacheOps' = [cacheOps EXCEPT ![i] = IF MustRemoveEntry(locker) THEN @ + 1 ELSE @]
    /\ frame' = [frame EXCEPT ![i].pc = "lookup", ![i].locker = NoLocker]
    /\ UNCHANGED <<image, tiles, fault, probed, cache0, otherVars>>

\* Lines 196-272: one iteration of the lookup loops, with the downscale and the
\* end of the channel when the probe reports a cached entry.
Lookup(i) ==
    /\ Running
    /\ frame[i].pc = "lookup"
    /\ LET im == image[i]
           fr == frame[i]
           ch == ThisChannelTile(i)
           key == keyToReadCache(im, ch.channelIndex, fr.mipmap_i, fr.draft_i)
           status == CacheGetStatus(key, cached, computing)
           locker == [key |-> key, status |-> status]
           requested == IF IsRequestedScale(im, fr.mipmap_i, fr.draft_i)
                        THEN locker ELSE fr.requestedScaleLocker
           \* line 219: the new locker is assigned, the previous one is dropped
           writers == Dropped(ch.entryLocker, fr.requestedScaleLocker,
                              CacheGetWriters(key, cached, computing))
           fetched == IF status = "Cached" THEN FetchEntry(setKey(ch.buffer, key), key)
                      ELSE setKey(ch.buffer, key)
           accepted == initFromExternalBuffer(tmpArgs(im, fetched), fetched, PackedImageTiles)
       IN /\ probed' = [probed EXCEPT ![i][fr.c] = Append(@, locker)]
          /\ cacheOps' = [cacheOps EXCEPT ![i] = @ + 2]
          /\ IF status = "Cached"
             THEN \* lines 232-271, then the locals go out of scope (line 278)
                  /\ computing' = Dropped(requested, locker, writers)
                  /\ IF MustDownscale(im, fr.mipmap_i) /\ ~accepted
                     THEN /\ frame' = [frame EXCEPT ![i] =
                                 [fr EXCEPT !.pc = "threw", !.isCached = TRUE,
                                            !.requestedScaleLocker = NoLocker]]
                          /\ tiles' = [tiles EXCEPT ![i][fr.c] =
                                 [ch EXCEPT !.entryLocker = locker, !.buffer = fetched]]
                     ELSE /\ frame' = [frame EXCEPT ![i] = NextChannel(fr, im)]
                          /\ tiles' = [tiles EXCEPT ![i][fr.c] =
                                 [ch EXCEPT !.entryLocker = locker,
                                            !.buffer = IF MustDownscale(im, fr.mipmap_i)
                                                       THEN downscaleMipMap(fetched, downscaleLevels(im, fr.mipmap_i))
                                                       ELSE fetched]]
             ELSE /\ computing' = writers
                  /\ tiles' = [tiles EXCEPT ![i][fr.c] =
                         [ch EXCEPT !.entryLocker = locker, !.buffer = fetched]]
                  /\ frame' = [frame EXCEPT ![i] =
                         IF fr.draft_i + 1 < nDraftLookups(im)
                         THEN [fr EXCEPT !.draft_i = fr.draft_i + 1, !.requestedScaleLocker = requested]
                         ELSE IF fr.mipmap_i + 1 < nMipMapLookups(im)
                         THEN [fr EXCEPT !.mipmap_i = fr.mipmap_i + 1, !.draft_i = 0,
                                         !.requestedScaleLocker = requested]
                         ELSE [fr EXCEPT !.pc = "noHit", !.requestedScaleLocker = requested]]
    /\ UNCHANGED <<image, cached, fault, cache0, otherVars>>

\* Lines 273-278: no probe reported a cached entry; the key of the requested
\* scale is set again and its locker is the one the tile keeps.
NoHit(i) ==
    /\ Running
    /\ frame[i].pc = "noHit"
    /\ LET im == image[i]
           fr == frame[i]
           ch == ThisChannelTile(i)
       IN /\ computing' = Dropped(ch.entryLocker, fr.requestedScaleLocker, computing)
          /\ tiles' = [tiles EXCEPT ![i][fr.c] =
                 [ch EXCEPT !.entryLocker = fr.requestedScaleLocker,
                            !.buffer = setKey(ch.buffer, requestedScaleKey(im, ch.channelIndex))]]
          /\ frame' = [frame EXCEPT ![i] = NextChannel(fr, im)]
    /\ cacheOps' = [cacheOps EXCEPT ![i] = @ + 1]
    /\ UNCHANGED <<image, cached, fault, probed, cache0, otherVars>>

----------------------------------------------------------------------------
\* The tile grid (initTileAndFetchFromCache, lines 59-73)

\* Largest absolute coordinate of originalBounds, largest tile size.
MaxCoord == 3
MaxTileSize == 3

\* The pixels of a rectangle.
Pixels(r) == {p \in (r.x1 .. r.x2 - 1) \X (r.y1 .. r.y2 - 1) : TRUE}

\* RectI::roundToTileSize: the smallest rectangle of whole grid cells that
\* encloses r.
roundToTileSize(r, tileSizeX, tileSizeY) ==
    [x1 |-> (r.x1 \div tileSizeX) * tileSizeX,
     y1 |-> (r.y1 \div tileSizeY) * tileSizeY,
     x2 |-> -((-r.x2) \div tileSizeX) * tileSizeX,
     y2 |-> -((-r.y2) \div tileSizeY) * tileSizeY]

Max(a, b) == IF a >= b THEN a ELSE b
Min(a, b) == IF a <= b THEN a ELSE b

\* Variant: the grid cell is not clipped to originalBounds.
tileBoundsUnclipped(im, coord) ==
    [x1 |-> coord.tx, y1 |-> coord.ty,
     x2 |-> coord.tx + im.tileSizeX, y2 |-> coord.ty + im.tileSizeY]

\* Lines 59-73: tile.tileBounds of the tile at coord.
tileBounds(im, coord) ==
    IF im.bufferFormat = "MonoChannelTiled"
    THEN [x1 |-> Max(coord.tx, im.originalBounds.x1),
          y1 |-> Max(coord.ty, im.originalBounds.y1),
          x2 |-> Min(coord.tx + im.tileSizeX, im.originalBounds.x2),
          y2 |-> Min(coord.ty + im.tileSizeY, im.originalBounds.y2)]
    ELSE im.originalBounds

\* The coordinates of the tiles of the image, line after line: the grid points
\* of the bounds rounded to the tile size, or the one tile of a full rect image.
TileCoords(im) ==
    IF im.bufferFormat = "MonoChannelTiled"
    THEN LET r == roundToTileSize(im.originalBounds, im.tileSizeX, im.tileSizeY)
             nx == (r.x2 - r.x1) \div im.tileSizeX
             ny == (r.y2 - r.y1) \div im.tileSizeY
         IN [k \in 1..(nx * ny) |->
                [tx |-> r.x1 + ((k - 1) % nx) * im.tileSizeX,
                 ty |-> r.y1 + ((k - 1) \div nx) * im.tileSizeY]]
    ELSE <<[tx |-> im.originalBounds.x1, ty |-> im.originalBounds.y1]>>

\* The images the grid is made for: non empty bounds, any origin.
GridImages ==
    {im \in [bufferFormat : {"MonoChannelTiled", "RGBAPackedFullRect"},
             originalBounds : [x1 : -MaxCoord..MaxCoord, y1 : -MaxCoord..MaxCoord,
                               x2 : -MaxCoord..MaxCoord, y2 : -MaxCoord..MaxCoord],
             tileSizeX : 1..MaxTileSize, tileSizeY : 1..MaxTileSize] :
        /\ im.originalBounds.x1 < im.originalBounds.x2
        /\ im.originalBounds.y1 < im.originalBounds.y2}

NoGridImage ==
    [bufferFormat |-> "RGBAPackedFullRect", originalBounds |-> NullRect,
     tileSizeX |-> 1, tileSizeY |-> 1]

\* initTileAndFetchFromCache gives the next tile of the map its bounds.
InitTileBounds ==
    /\ gridImage # NoGridImage
    /\ Len(gridTiles) < Len(TileCoords(gridImage))
    /\ LET coord == TileCoords(gridImage)[Len(gridTiles) + 1]
       IN gridTiles' = Append(gridTiles, [coord |-> coord, tileBounds |-> tileBounds(gridImage, coord)])
    /\ UNCHANGED <<gridImage, gridOthers>>

----------------------------------------------------------------------------
\* copyUntiledImageToTiledImage, copyTiledImageToUntiledImage

\* Largest width of the tiled image, largest number of threads of a processor.
MaxCopyWidth == 4
MaxThreads == 2

IsNull(r) == r.x2 <= r.x1 \/ r.y2 <= r.y1

\* RectI::intersect(other, &out): writes the intersection to out and answers
\* true, or leaves out as it was when the rectangles do not intersect.
Intersection(a, b) ==
    [x1 |-> Max(a.x1, b.x1), y1 |-> Max(a.y1, b.y1),
     x2 |-> Min(a.x2, b.x2), y2 |-> Min(a.y2, b.y2)]

Intersect(a, b, out) ==
    IF IsNull(a) \/ IsNull(b) \/ IsNull(Intersection(a, b)) THEN out ELSE Intersection(a, b)

\* Variant: pixelCoordinates is not rounded to the tile size.
getTilesCoordinatesUnrounded(im, tileMap_, pixelCoordinates) ==
    IF tileMap_ = {} THEN NullRect
    ELSE LET boundsRoundedToTile == roundToTileSize(im.originalBounds, im.tileSizeX, im.tileSizeY)
         IN Intersect(pixelCoordinates, boundsRoundedToTile, pixelCoordinates)

\* Lines 390-405: the grid cells pixelCoordinates touches.
getTilesCoordinates(im, tileMap_, pixelCoordinates) ==
    IF tileMap_ = {} THEN NullRect
    ELSE LET ret == roundToTileSize(pixelCoordinates, im.tileSizeX, im.tileSizeY)
             boundsRoundedToTile == roundToTileSize(im.originalBounds, im.tileSizeX, im.tileSizeY)
         IN Intersect(ret, boundsRoundedToTile, ret)

\* Variant: tx and ty advance by one pixel, not by the size of a tile.
tileIndicesByPixel(im, tilesRect) ==
    LET nx == (tilesRect.x2 - tilesRect.x1) \div im.tileSizeX
        ny == (tilesRect.y2 - tilesRect.y1) \div im.tileSizeY
    IN [k \in 1..(nx * ny) |->
           [tx |-> tilesRect.x1 + ((k - 1) % nx),
            ty |-> tilesRect.y1 + ((k - 1) \div nx)]]

\* Lines 595-602, 720-727: the coordinates of the tiles of tilesRect, line
\* after line.
tileIndices(im, tilesRect) ==
    LET nx == (tilesRect.x2 - tilesRect.x1) \div im.tileSizeX
        ny == (tilesRect.y2 - tilesRect.y1) \div im.tileSizeY
    IN [k \in 1..(nx * ny) |->
           [tx |-> tilesRect.x1 + ((k - 1) % nx) * im.tileSizeX,
            ty |-> tilesRect.y1 + ((k - 1) \div nx) * im.tileSizeY]]

\* Variant: one of the two storages in RAM or on disk is enough.
UseProcessorEither(fromStorage, toStorage) ==
    fromStorage \in {"RAM", "Disk"} \/ toStorage \in {"RAM", "Disk"}

\* Lines 605-606, 730-731: the copy is handed to the threads of a processor.
UseProcessor(fromStorage, toStorage) ==
    fromStorage \in {"RAM", "Disk"} /\ toStorage \in {"RAM", "Disk"}

\* ImageMultiThreadProcessorBase::getThreadRange: the range of
\* ibegin..iend-1 thread threadID works on, ranges of ceil(n / nThreads) indices.
getThreadRange(threadID, nThreads, ibegin, iend) ==
    LET di == iend - ibegin
        r0 == (di + nThreads - 1) \div nThreads
        r == IF r0 = 0 THEN 1 ELSE r0
    IN IF threadID * r >= di
       THEN [fromIndex |-> iend, toIndex |-> iend]
       ELSE [fromIndex |-> ibegin + threadID * r,
             toIndex |-> ibegin + Min((threadID + 1) * r, di)]

\* TileMap::find
FindTile(tileMap_, coord) == {t \in tileMap_ : t.coord = coord}

\* Variant: the region of the copy is not reduced to the tile.
TileRoiWhole(tileBounds_, roi, argsCpyRoi) == roi

\* Lines 564, 617, 689, 742: the part of args.roi that lies in the tile.
TileRoi(tileBounds_, roi, argsCpyRoi) == Intersect(tileBounds_, roi, argsCpyRoi)

NoCopyArgs ==
    [dir |-> "none", fromStorage |-> "None", toStorage |-> "None", image |-> NoGridImage,
     roi |-> NullRect, nThreads |-> 0]

NoCopyCall == [pc |-> "idle", tileIndices |-> <<>>, i |-> 0, stat |-> "none", result |-> "none"]

\* The pixels of the two images of a copy: the value each pixel of the
\* untiled image and of the tiles holds, 0 when nothing was written to it.
\* `original` is the content the first source had, `pass` counts the copies.
NoCopyPixels == [pass |-> 0, original |-> <<>>, untiled |-> <<>>, tiled |-> <<>>]

\* What a pixel holds after a copy from or to a tile that has no buffer.
Garbage == -1

\* ImagePrivate::copyRectangle: the pixels of roi go from the tile of the
\* source to the tile of the destination, one of them the tile of bounds
\* tileBounds_ of the tiled image, the other one the tile of the untiled image.
\* Outside of the tile there is no pixel to read or to write.
copyRectangle(px, dir, tileBounds_, roi) ==
    LET inTile(p) == p \in Pixels(tileBounds_)
    IN IF dir = "untiledToTiled"
       THEN [px EXCEPT !.tiled = [p \in DOMAIN px.tiled |->
                IF p \in Pixels(roi)
                THEN (IF inTile(p) THEN px.untiled[p] ELSE Garbage)
                ELSE px.tiled[p]]]
       ELSE [px EXCEPT !.untiled = [p \in DOMAIN px.untiled |->
                IF p \in Pixels(roi)
                THEN (IF inTile(p) THEN px.tiled[p] ELSE Garbage)
                ELSE px.untiled[p]]]

\* The tiles the tiled image is constructed with.
GridTileMap(im) ==
    {[coord |-> TileCoords(im)[k], tileBounds |-> tileBounds(im, TileCoords(im)[k])] :
        k \in 1..Len(TileCoords(im))}

\* Lines 583-609, 707-734: the tiles to copy are listed and the copy starts,
\* on the threads of a processor or on the calling thread.
CopyBegin ==
    /\ Running
    /\ copyCall.pc = "entry"
    /\ LET im == copyArgs.image
           tilesRect == getTilesCoordinates(im, copyTiles, copyArgs.roi)
           list == tileIndices(im, tilesRect)
       IN IF IsNull(tilesRect)
          THEN /\ copyCall' = [copyCall EXCEPT !.pc = "returned"]
               /\ UNCHANGED copyWorkers
          ELSE IF UseProcessor(copyArgs.fromStorage, copyArgs.toStorage)
          THEN /\ copyCall' = [copyCall EXCEPT !.pc = "launched", !.tileIndices = list]
               /\ copyWorkers' =
                     [w \in 1..copyArgs.nThreads |->
                         LET range == getThreadRange(w - 1, copyArgs.nThreads, 0, Len(list))
                         IN [pc |-> IF range.toIndex - range.fromIndex <= 0 THEN "ok" ELSE "loop",
                             i |-> range.fromIndex, toIndex |-> range.toIndex,
                             roi |-> copyArgs.roi]]
          ELSE /\ copyCall' = [copyCall EXCEPT !.pc = "sequential", !.tileIndices = list]
               /\ UNCHANGED copyWorkers
    /\ UNCHANGED <<copyArgs, copyTiles, copyWrites, copyPixels, fault, copyOthers>>

\* The tile map the worker searches, and the one whose end() it compares the
\* result of the search with (lines 557-559, 683-685).
SearchedMap == copyArgs.dir
ComparedMap == "untiledToTiled"

\* Lines 554-567, 681-693: a thread of the processor copies the next tile of
\* its range, or ends with a failure when it finds the tile missing.
WorkerCopyTile(w) ==
    /\ Running
    /\ copyCall.pc = "launched"
    /\ w \in DOMAIN copyWorkers
    /\ copyWorkers[w].pc = "loop"
    /\ LET me == copyWorkers[w]
           coord == copyCall.tileIndices[me.i + 1]
           foundTile == FindTile(copyTiles, coord)
           last == me.i + 1 >= me.toIndex
       IN \/ /\ foundTile # {}
             /\ \E thisTile \in foundTile :
                   LET roi == TileRoi(thisTile.tileBounds, copyArgs.roi, me.roi)
                   IN /\ copyWrites' = copyWrites \cup
                            {[worker |-> w, index |-> me.i, coord |-> coord, roi |-> roi,
                              found |-> TRUE]}
                      /\ copyPixels' = copyRectangle(copyPixels, copyArgs.dir,
                                                     thisTile.tileBounds, roi)
                      /\ copyWorkers' = [copyWorkers EXCEPT ![w] =
                            [me EXCEPT !.i = me.i + 1, !.roi = roi,
                                       !.pc = IF last THEN "ok" ELSE "loop"]]
          \/ /\ foundTile = {}
             /\ SearchedMap = ComparedMap
             /\ copyWorkers' = [copyWorkers EXCEPT ![w].pc = "failed"]
             /\ UNCHANGED <<copyWrites, copyPixels>>
          \/ \* the iterator is the end() of the other image's map: the test
             \* does not see it and what it designates is read as a tile
             /\ foundTile = {}
             /\ SearchedMap # ComparedMap
             /\ \E garbage \in {NullRect} \cup {t.tileBounds : t \in copyTiles} :
                   LET roi == TileRoi(garbage, copyArgs.roi, me.roi)
                   IN /\ copyWrites' = copyWrites \cup
                            {[worker |-> w, index |-> me.i, coord |-> coord, roi |-> roi,
                              found |-> FALSE]}
                      /\ copyPixels' = copyRectangle(copyPixels, copyArgs.dir, NullRect, roi)
                      /\ copyWorkers' = [copyWorkers EXCEPT ![w] =
                            [me EXCEPT !.i = me.i + 1, !.roi = roi,
                                       !.pc = IF last THEN "ok" ELSE "loop"]]
    /\ UNCHANGED <<copyArgs, copyTiles, copyCall, fault, copyOthers>>

\* Lines 558, 684: the process ends in the worker. Either the assertion fails
\* on a missing tile (build with assertions), or iterators of two different
\* maps are compared or the end() of a map is dereferenced (undefined).
WorkerAbort(w) ==
    /\ Running
    /\ copyCall.pc = "launched"
    /\ w \in DOMAIN copyWorkers
    /\ copyWorkers[w].pc = "loop"
    /\ \/ /\ SearchedMap = ComparedMap
          /\ FindTile(copyTiles, copyCall.tileIndices[copyWorkers[w].i + 1]) = {}
          /\ fault' = "assertion"
       \/ /\ SearchedMap # ComparedMap
          /\ fault' = "invalidIterator"
    /\ copyCall' = [copyCall EXCEPT !.pc = "dead"]
    /\ UNCHANGED <<copyArgs, copyTiles, copyWorkers, copyWrites, copyPixels, copyOthers>>

\* MultiThreadProcessorBase::launchThreads: the status of the workers, a
\* failure when one of them failed.
launchThreads(workers) ==
    IF \E w \in DOMAIN workers : workers[w].pc = "failed" THEN "Failed" ELSE "OK"

\* Lines 609-610, 734-735: the threads are done; the status of launchThreads
\* is dropped and the function, which has no result, returns.
CopyJoin ==
    /\ Running
    /\ copyCall.pc = "launched"
    /\ \A w \in DOMAIN copyWorkers : copyWorkers[w].pc \in {"ok", "failed"}
    /\ copyCall' = [copyCall EXCEPT !.pc = "returned", !.stat = launchThreads(copyWorkers),
                                    !.result = "void"]
    /\ UNCHANGED <<copyArgs, copyTiles, copyWorkers, copyWrites, copyPixels, fault, copyOthers>>

\* The caller copies the tiled image back, whole, to a new untiled image of
\* the same bounds, kept in the storage s.
CopyBack ==
    /\ Running
    /\ copyCall.pc = "returned"
    /\ copyArgs.dir = "untiledToTiled"
    /\ copyPixels.pass = 1
    /\ \E s \in {"RAM", "GLTex"} :
          copyArgs' = [copyArgs EXCEPT !.dir = "tiledToUntiled",
                                       !.fromStorage = copyArgs.toStorage, !.toStorage = s]
    /\ copyCall' = [NoCopyCall EXCEPT !.pc = "entry"]
    /\ copyWorkers' = <<>>
    /\ copyWrites' = {}
    /\ copyPixels' = [copyPixels EXCEPT !.pass = 2,
                                        !.untiled = [p \in DOMAIN copyPixels.untiled |-> 0]]
    /\ UNCHANGED <<copyTiles, fault, copyOthers>>

\* Lines 612-620, 737-745: the calling thread copies the next tile; tiles[coord]
\* adds an empty tile to the map when there is none at coord.
SequentialCopyTile ==
    /\ Running
    /\ copyCall.pc = "sequential"
    /\ LET coord == copyCall.tileIndices[copyCall.i + 1]
           foundTile == FindTile(copyTiles, coord)
           thisTile == IF foundTile = {} THEN [coord |-> coord, tileBounds |-> NullRect]
                       ELSE CHOOSE t \in foundTile : TRUE
       IN /\ copyTiles' = copyTiles \cup {thisTile}
          /\ copyWrites' = copyWrites \cup
                {[worker |-> 0, index |-> copyCall.i, coord |-> coord,
                  roi |-> TileRoi(thisTile.tileBounds, copyArgs.roi, copyArgs.roi),
                  found |-> foundTile # {}]}
          /\ copyPixels' = copyRectangle(copyPixels, copyArgs.dir, thisTile.tileBounds,
                                         TileRoi(thisTile.tileBounds, copyArgs.roi, copyArgs.roi))
          /\ copyCall' = [copyCall EXCEPT !.i = copyCall.i + 1,
                              !.pc = IF copyCall.i + 1 >= Len(copyCall.tileIndices)
                                     THEN "returned" ELSE "sequential",
                              !.result = IF copyCall.i + 1 >= Len(copyCall.tileIndices)
                                         THEN "void" ELSE copyCall.result]
    /\ UNCHANGED <<copyArgs, copyWorkers, fault, copyOthers>>

----------------------------------------------------------------------------
\* checkIfCopyToTempImageIsNeeded

\* ImagePlaneDesc::getRGBAComponents().getNumComponents()
RGBAComponents == 4

\* A null ImagePtr.
NullImage == [created |-> FALSE, bounds |-> NullRect, numComponents |-> 0]

\* Image::create(args) for args of the given bounds and layer.
TempImage(bounds, numComponents) ==
    [created |-> TRUE, bounds |-> bounds, numComponents |-> numComponents]

\* Line 417: both images are made of mono channel tiles.
BothTiled(fromImage, toImage) ==
    fromImage.bufferFormat = "MonoChannelTiled" /\ toImage.bufferFormat = "MonoChannelTiled"

\* Lines 436-441: two textures of different OpenGL contexts.
ContextsDiffer(fromImage, toImage) ==
    toImage.storage = "GLTex" /\ toImage.context # fromImage.context

\* Line 457: the destination of a texture is not a RGBA packed image of the
\* bounds of the texture.
ToNotPackedRGBA(fromImage, toImage) ==
    \/ toImage.bufferFormat # "RGBAPackedFullRect"
    \/ toImage.numComponents # 4
    \/ toImage.bounds # fromImage.bounds

\* Variant: the bounds of the source of a texture are compared as well.
FromNotPackedRGBASameBounds(fromImage, toImage) ==
    \/ fromImage.bufferFormat # "RGBAPackedFullRect"
    \/ fromImage.numComponents # 4
    \/ fromImage.bounds # toImage.bounds

\* Line 480: the source of a texture is not a RGBA packed image.
FromNotPackedRGBA(fromImage, toImage) ==
    \/ fromImage.bufferFormat # "RGBAPackedFullRect"
    \/ fromImage.numComponents # 4

\* Lines 412-497
checkIfCopyToTempImageIsNeeded(fromImage, toImage, roi) ==
    IF BothTiled(fromImage, toImage)
    THEN TempImage(roi, fromImage.numComponents)
    ELSE IF fromImage.storage = "GLTex"
    THEN IF ContextsDiffer(fromImage, toImage)
         THEN TempImage(fromImage.bounds, RGBAComponents)
         ELSE IF ToNotPackedRGBA(fromImage, toImage)
         THEN TempImage(fromImage.bounds, RGBAComponents)
         ELSE NullImage
    ELSE IF toImage.storage = "GLTex" /\ FromNotPackedRGBA(fromImage, toImage)
    THEN TempImage(fromImage.bounds, RGBAComponents)
    ELSE NullImage

\* The images copyPixels is called with: a texture is a packed image and has
\* the OpenGL context it was made in.
CopyPixelsImages ==
    {im \in [bufferFormat : BufferLayouts, storage : {"RAM", "Disk", "GLTex"},
             numComponents : {1, 3, 4}, bounds : {TileRect, [x1 |-> 0, y1 |-> 0, x2 |-> 8, y2 |-> 4]},
             context : {0, 1, 2}] :
        /\ (im.storage = "GLTex") <=> (im.context # 0)
        /\ im.storage = "GLTex" => im.bufferFormat = "RGBAPackedFullRect"}

\* Largest number of nested copies into a temporary image that are followed.
MaxTempDepth == 3

\* Variant: the temporary image has the layout of the source.
ImageOfTempLikeSource(tmp, fromImage) ==
    [bufferFormat |-> fromImage.bufferFormat, storage |-> fromImage.storage,
     numComponents |-> tmp.numComponents, bounds |-> tmp.bounds, context |-> fromImage.context]

\* Image::create(args) with the storage and the buffer format args has when
\* they are not set: a RGBA packed full rect image in RAM.
ImageOfTemp(tmp, fromImage) ==
    [bufferFormat |-> "RGBAPackedFullRect", storage |-> "RAM",
     numComponents |-> tmp.numComponents, bounds |-> tmp.bounds, context |-> 0]

\* Lines 424-426, 446-448, 465-467, 486-488: tmpImage->copyPixels(fromImage,
\* copyArgs) asks in turn whether the copy from fromImage to tmpImage needs a
\* temporary image; the temporary images created, outermost first.
RECURSIVE TemporaryImages(_, _, _, _)
TemporaryImages(fromImage, toImage, roi, depth) ==
    LET tmp == checkIfCopyToTempImageIsNeeded(fromImage, toImage, roi)
    IN IF ~tmp.created THEN <<>>
       ELSE IF depth = 0 THEN <<tmp>>
       ELSE <<tmp>> \o TemporaryImages(fromImage, ImageOfTemp(tmp, fromImage), roi, depth - 1)

\* The call has not returned.
NoTempResult == [created |-> FALSE, bounds |-> NullRect, numComponents |-> -1]

NoTempArgs == [fromImage |-> NullImage, toImage |-> NullImage, roi |-> NullRect]

\* Lines 412-497: the call returns the temporary image, or null.
CheckIfCopyToTempImageIsNeeded ==
    /\ tempArgs # NoTempArgs
    /\ tempResult = NoTempResult
    /\ tempResult' = checkIfCopyToTempImageIsNeeded(tempArgs.fromImage, tempArgs.toImage, tempArgs.roi)
    /\ tempChain' = TemporaryImages(tempArgs.fromImage, tempArgs.toImage, tempArgs.roi, MaxTempDepth)
    /\ UNCHANGED <<tempArgs, tempOthers>>

----------------------------------------------------------------------------
\* halveImage

\* Largest width and height of the source rectangle of halveImage.
MaxHalveSize == 3

BitDepths == {"Byte", "Short", "Half", "Float", "None"}

\* Lines 882, 885, 891: the template argument maxValue of the bit depth.
maxValue(bitDepth) ==
    IF bitDepth = "Byte" THEN 255 ELSE IF bitDepth = "Short" THEN 65535 ELSE 1

Width(r) == r.x2 - r.x1
Height(r) == r.y2 - r.y1

\* The smallest rectangle of half size pixels that encloses r.
HalfBounds(r) ==
    [x1 |-> r.x1 \div 2, y1 |-> r.y1 \div 2,
     x2 |-> -((-r.x2) \div 2), y2 |-> -((-r.y2) \div 2)]

\* Image::getChannelPointers: the elements of a pixel are side by side in one
\* buffer (packed, stride nComps) or each in the buffer of its channel
\* (coplanar, stride 1). An element is designated by a buffer and an offset.
PixelStride(layout, nComps) == IF layout = "packed" THEN nComps ELSE 1
ChannelBuffer(layout, k) == IF layout = "packed" THEN 0 ELSE k
ChannelPointer(layout, nComps, bounds, x, y, k) ==
    ((y - bounds.y1) * Width(bounds) + (x - bounds.x1)) * PixelStride(layout, nComps)
        + (IF layout = "packed" THEN k ELSE 0)

\* The elements of a buffer of the given bounds.
InBuffer(layout, nComps, bounds, offset) ==
    0 <= offset /\ offset < Width(bounds) * Height(bounds) * PixelStride(layout, nComps)

\* The content of the source: every element holds v, or every element holds
\* a value of its own.
SrcElement(args, buffer, offset) ==
    IF args.content = "ramp"
    THEN 1 + offset + buffer * Width(args.srcBounds) * Height(args.srcBounds)
    ELSE args.constant

\* What *(ptr) gives: the element inside the source buffer, or whatever lies
\* at an address outside of it.
ReadSrc(args, buffer, offset, outside) ==
    IF InBuffer(args.layout, args.nComps, args.srcBounds, offset)
    THEN SrcElement(args, buffer, offset) ELSE outside

\* The largest value of an int.
IntMax == 2147483647

\* Variant: a + b + c + d is computed in the type of the pixels.
sumOfSamplesInPIX(bitDepth, a, b, c, d) ==
    IF bitDepth = "Float" THEN a + b + c + d ELSE (a + b + c + d) % (maxValue(bitDepth) + 1)

\* Line 828: a + b + c + d. The operands of type unsigned char or unsigned
\* short are promoted to int; the sum is that of a 32 bit signed integer.
sumOfSamples(bitDepth, a, b, c, d) ==
    LET t == a + b + c + d
    IN IF bitDepth = "Float" \/ t <= IntMax THEN t ELSE (t - IntMax) - IntMax - 2

\* Line 828: (a + b + c + d) / sum, in int for the integer pixels (the
\* quotient is truncated, and converted to the type of the pixels when it is
\* stored), exact for float pixels (kept as a fraction).
Quotient(bitDepth, total, sum) ==
    IF bitDepth = "Float" THEN <<total, sum>>
    ELSE (total \div sum) % (maxValue(bitDepth) + 1)

\* Lines 793-794, 805-806: the source line or column lies within srcBounds.
pick(lo, v, hi) == lo <= v /\ v < hi

\* Line 839: what is added to the pointer of the source at the end of a line.
srcRowOffset(srcRowElementsCount, dstWidth, srcPixelStride) ==
    srcRowElementsCount * 2 - dstWidth * srcPixelStride

\* Lines 799-840: the destination pixel (x, y) of the call, for the offsets
\* srcPixelPtrs and dstPixelPtrs; `outside` is what a read outside the source
\* buffer gives.
HalvedPixel(args, call, outside) ==
    LET srcBounds == args.srcBounds
        srcPixelStride == PixelStride(args.layout, args.nComps)
        srcRowElementsCount == Width(srcBounds) * srcPixelStride
        srcy == call.y * 2
        srcx == call.x * 2
        pickThisRow == pick(srcBounds.y1, srcy, srcBounds.y2)
        pickNextRow == pick(srcBounds.y1, srcy + 1, srcBounds.y2)
        pickThisCol == pick(srcBounds.x1, srcx, srcBounds.x2)
        pickNextCol == pick(srcBounds.x1, srcx + 1, srcBounds.x2)
        sumH == (IF pickNextRow THEN 1 ELSE 0) + (IF pickThisRow THEN 1 ELSE 0)
        sumW == (IF pickThisCol THEN 1 ELSE 0) + (IF pickNextCol THEN 1 ELSE 0)
        sum == sumW * sumH
    IN [k \in 0..(args.nComps - 1) |->
           LET ptr == call.srcPixelPtrs[k + 1]
               buf == ChannelBuffer(args.layout, k)
               a == IF pickThisCol /\ pickThisRow THEN ReadSrc(args, buf, ptr, outside) ELSE 0
               b == IF pickNextCol /\ pickThisRow
                    THEN ReadSrc(args, buf, ptr + srcPixelStride, outside) ELSE 0
               c == IF pickThisCol /\ pickNextRow
                    THEN ReadSrc(args, buf, ptr + srcRowElementsCount, outside) ELSE 0
               d == IF pickNextCol /\ pickNextRow
                    THEN ReadSrc(args, buf, ptr + srcRowElementsCount + srcPixelStride, outside) ELSE 0
           IN [value |-> Quotient(args.bitDepth, sumOfSamples(args.bitDepth, a, b, c, d), sum),
               total |-> sumOfSamples(args.bitDepth, a, b, c, d),
               samples |-> (IF pickThisCol /\ pickThisRow THEN {<<"a", ptr, a>>} ELSE {})
                         \cup (IF pickNextCol /\ pickThisRow
                               THEN {<<"b", ptr + srcPixelStride, b>>} ELSE {})
                         \cup (IF pickThisCol /\ pickNextRow
                               THEN {<<"c", ptr + srcRowElementsCount, c>>} ELSE {})
                         \cup (IF pickNextCol /\ pickNextRow
                               THEN {<<"d", ptr + srcRowElementsCount + srcPixelStride, d>>}
                               ELSE {}),
               reads |-> (IF pickThisCol /\ pickThisRow THEN {ptr} ELSE {})
                         \cup (IF pickNextCol /\ pickThisRow THEN {ptr + srcPixelStride} ELSE {})
                         \cup (IF pickThisCol /\ pickNextRow THEN {ptr + srcRowElementsCount} ELSE {})
                         \cup (IF pickNextCol /\ pickNextRow
                               THEN {ptr + srcRowElementsCount + srcPixelStride} ELSE {})]]

\* The call reads outside of the source buffer at its next pixel.
ReadsOutside(args, call) ==
    \E k \in 0..(args.nComps - 1) : \E o \in HalvedPixel(args, call, 0)[k].reads :
        ~InBuffer(args.layout, args.nComps, args.srcBounds, o)

NoHalveArgs ==
    [nComps |-> 0, bitDepth |-> "None", srcBounds |-> NullRect, dstBounds |-> NullRect,
     layout |-> "packed", content |-> "constant", constant |-> 0]

NoHalveCall == [pc |-> "idle", x |-> 0, y |-> 0, srcPixelPtrs |-> <<>>, dstPixelPtrs |-> <<>>]

\* Lines 880-895, 853-868, 775-784: the kernel of the bit depth and of the
\* number of components starts, its pointers on the first pixel of each
\* buffer; no kernel for the depths half and none.
HalveBegin ==
    /\ Running
    /\ halveCall.pc = "entry"
    /\ IF halveArgs.bitDepth \in {"Half", "None"}
       THEN halveCall' = [halveCall EXCEPT !.pc = "returned"]
       ELSE halveCall' =
               [pc |-> "loop", x |-> halveArgs.dstBounds.x1, y |-> halveArgs.dstBounds.y1,
                srcPixelPtrs |-> [j \in 1..halveArgs.nComps |->
                    ChannelPointer(halveArgs.layout, halveArgs.nComps, halveArgs.srcBounds,
                                   halveArgs.srcBounds.x1, halveArgs.srcBounds.y1, j - 1)],
                dstPixelPtrs |-> [j \in 1..halveArgs.nComps |->
                    ChannelPointer(halveArgs.layout, halveArgs.nComps, halveArgs.dstBounds,
                                   halveArgs.dstBounds.x1, halveArgs.dstBounds.y1, j - 1)]]
    /\ UNCHANGED <<halveArgs, halveDst, fault, halveOthers>>

\* Line 888: assert(false) for the half depth, in a build with assertions.
HalveAssertionFailure ==
    /\ Running
    /\ halveCall.pc = "entry"
    /\ halveArgs.bitDepth = "Half"
    /\ fault' = "assertion"
    /\ halveCall' = [halveCall EXCEPT !.pc = "dead"]
    /\ UNCHANGED <<halveArgs, halveDst, halveOthers>>

\* Lines 799-840: one destination pixel, and the end of the line after the
\* last pixel of a line.
HalvePixel ==
    /\ Running
    /\ halveCall.pc = "loop"
    /\ \E outside \in {0, maxValue(halveArgs.bitDepth)} :
          LET args == halveArgs
              call == halveCall
              dstBounds == args.dstBounds
              srcPixelStride == PixelStride(args.layout, args.nComps)
              dstPixelStride == PixelStride(args.layout, args.nComps)
              dstRowElementsCount == Width(dstBounds) * dstPixelStride
              srcRowElementsCount == Width(args.srcBounds) * srcPixelStride
              px == HalvedPixel(args, call, outside)
              endOfLine == call.x + 1 >= dstBounds.x2
              endOfImage == endOfLine /\ call.y + 1 >= dstBounds.y2
          IN /\ ReadsOutside(args, call) \/ outside = 0
             /\ halveDst' = halveDst \cup
                   {[buffer |-> ChannelBuffer(args.layout, k),
                     offset |-> call.dstPixelPtrs[k + 1],
                     x |-> call.x, y |-> call.y, k |-> k,
                     value |-> px[k].value, total |-> px[k].total,
                     samples |-> px[k].samples,
                     outside |-> {o \in px[k].reads :
                                     ~InBuffer(args.layout, args.nComps, args.srcBounds, o)}] :
                       k \in 0..(args.nComps - 1)}
             /\ halveCall' =
                   [pc |-> IF endOfImage THEN "returned" ELSE "loop",
                    x |-> IF endOfLine THEN dstBounds.x1 ELSE call.x + 1,
                    y |-> IF endOfLine THEN call.y + 1 ELSE call.y,
                    srcPixelPtrs |-> [j \in 1..args.nComps |->
                        call.srcPixelPtrs[j] + srcPixelStride * 2
                          + (IF endOfLine
                             THEN srcRowOffset(srcRowElementsCount, Width(dstBounds), srcPixelStride)
                             ELSE 0)],
                    dstPixelPtrs |-> [j \in 1..args.nComps |->
                        call.dstPixelPtrs[j] + dstPixelStride
                          + (IF endOfLine
                             THEN dstRowElementsCount - Width(dstBounds) * dstPixelStride
                             ELSE 0)]]
    /\ UNCHANGED <<halveArgs, fault, halveOthers>>

\* A read outside of the source buffer ends the process.
HalveSegmentationFault ==
    /\ Running
    /\ halveCall.pc = "loop"
    /\ ReadsOutside(halveArgs, halveCall)
    /\ fault' = "segmentationFault"
    /\ halveCall' = [halveCall EXCEPT !.pc = "dead"]
    /\ UNCHANGED <<halveArgs, halveDst, halveOthers>>

----------------------------------------------------------------------------
\* checkForNaNs

\* Largest width of the image scanned, and largest number of elements of it
\* that hold the marked value (NaN in a float buffer).
MaxNaNWidth == 2
MaxNaNs == 2

\* The values of an element: a finite number, an infinity, or NaN (the last
\* two in a float buffer only).
Finite(n) == [class |-> "finite", value |-> n]
Infinity == [class |-> "infinity", value |-> 1]
NaN == [class |-> "NaN", value |-> 0]

\* Line 911: *dstPixelPtrs[k] != *dstPixelPtrs[k]. A finite number and an
\* infinity are equal to themselves; NaN is not.
differsFromOne(v) == v # Finite(1)
differsFromItself(v) == v.class = "NaN"

\* The elements of the buffers of an image: <<buffer, offset>>.
Elements(layout, nComps, bounds) ==
    {<<ChannelBuffer(layout, k), o>> :
        k \in 0..(nComps - 1),
        o \in 0..(Width(bounds) * Height(bounds) * PixelStride(layout, nComps) - 1)}

\* What *(ptr) gives: the element, or whatever lies outside of the buffer.
ReadElement(buf, e) == IF e \in DOMAIN buf THEN buf[e] ELSE Finite(0)

\* Lines 909-921: the test of component k of the n-th pixel of a line, and
\* those that follow up to the end of the line. st holds the buffers, the
\* pointers, hasnan and the elements tested so far.
RECURSIVE ScanLine(_, _, _)
ScanLine(args, st, j) ==
    IF j >= Width(args.roi) * args.nComps THEN st
    ELSE LET k == j % args.nComps
             e == <<ChannelBuffer(args.layout, k), st.dstPixelPtrs[k + 1]>>
             isnan == differsFromItself(ReadElement(st.buf, e))
         IN ScanLine(args,
                [buf |-> IF isnan /\ e \in DOMAIN st.buf
                         THEN [st.buf EXCEPT ![e] = Finite(1)] ELSE st.buf,
                 dstPixelPtrs |-> IF isnan
                                  THEN [st.dstPixelPtrs EXCEPT ![k + 1] = @ + 1]
                                  ELSE st.dstPixelPtrs,
                 hasnan |-> st.hasnan \/ isnan,
                 tested |-> Append(st.tested, e)],
                j + 1)

NoNaNArgs ==
    [nComps |-> 0, bitDepth |-> "None", bounds |-> NullRect, roi |-> NullRect,
     layout |-> "packed"]

NoNaNCall ==
    [pc |-> "idle", y |-> 0, dstPixelPtrs |-> <<>>, hasnan |-> FALSE, tested |-> <<>>,
     buf0 |-> <<>>]

\* Lines 967-983, 940-956, 904-907: the kernel of the bit depth and of the
\* number of components starts, its pointers on the pixel (roi.x1, roi.y1);
\* no kernel for the depths half and none, the call returns false.
CheckForNaNsBegin ==
    /\ Running
    /\ nanCall.pc = "entry"
    /\ IF nanArgs.bitDepth \in {"Half", "None"}
       THEN /\ nanCall' = [nanCall EXCEPT !.pc = "returned"]
            /\ nanLog' = Append(nanLog, [before |-> nanBuf, after |-> nanBuf,
                                        result |-> FALSE, tested |-> <<>>])
       ELSE /\ nanCall' =
                  [pc |-> "loop", y |-> nanArgs.roi.y1,
                   dstPixelPtrs |-> [j \in 1..nanArgs.nComps |->
                       ChannelPointer(nanArgs.layout, nanArgs.nComps, nanArgs.bounds,
                                      nanArgs.roi.x1, nanArgs.roi.y1, j - 1)],
                   hasnan |-> FALSE, tested |-> <<>>, buf0 |-> nanBuf]
            /\ nanLog' = nanLog
    /\ UNCHANGED <<nanArgs, nanBuf, fault, nanOthers>>

\* Line 974: assert(false) for the half depth, in a build with assertions.
CheckForNaNsAssertionFailure ==
    /\ Running
    /\ nanCall.pc = "entry"
    /\ nanArgs.bitDepth = "Half"
    /\ fault' = "assertion"
    /\ nanCall' = [nanCall EXCEPT !.pc = "dead"]
    /\ UNCHANGED <<nanArgs, nanBuf, nanLog, nanOthers>>

\* Lines 908-929: one line of roi, the move of the pointers at its end, and
\* the return after the last line.
CheckForNaNsLine ==
    /\ Running
    /\ nanCall.pc = "loop"
    /\ LET args == nanArgs
           dstPixelStride == PixelStride(args.layout, args.nComps)
           rowElementsCount == Width(args.bounds) * dstPixelStride
           st == ScanLine(args, [buf |-> nanBuf, dstPixelPtrs |-> nanCall.dstPixelPtrs,
                                 hasnan |-> nanCall.hasnan, tested |-> nanCall.tested], 0)
           last == nanCall.y + 1 >= args.roi.y2
       IN /\ nanBuf' = st.buf
          /\ nanCall' =
                [pc |-> IF last THEN "returned" ELSE "loop",
                 y |-> nanCall.y + 1,
                 dstPixelPtrs |-> [j \in 1..args.nComps |->
                     st.dstPixelPtrs[j] + (rowElementsCount - Width(args.roi) * dstPixelStride)],
                 hasnan |-> st.hasnan, tested |-> st.tested, buf0 |-> nanCall.buf0]
          /\ nanLog' = IF last
                       THEN Append(nanLog, [before |-> nanCall.buf0, after |-> st.buf,
                                            result |-> st.hasnan, tested |-> st.tested])
                       ELSE nanLog
    /\ UNCHANGED <<nanArgs, fault, nanOthers>>

\* The caller scans the same region of the same image once more.
CheckForNaNsAgain ==
    /\ Running
    /\ nanCall.pc = "returned"
    /\ Len(nanLog) = 1
    /\ nanCall' = [NoNaNCall EXCEPT !.pc = "entry"]
    /\ UNCHANGED <<nanArgs, nanBuf, nanLog, fault, nanOthers>>

----------------------------------------------------------------------------
\* initFromExternalBuffer, called on its own

\* The storages a buffer can be: the three kinds the function recognises and
\* one it does not.
BufferKinds == {"GLTex", "Disk", "RAM", "Other"}

NoExternalArgs ==
    [bitdepth |-> "None", bounds |-> NullRect, numComponents |-> 0, storage |-> "None",
     externalBuffer |-> NoBuffer]

\* Lines 299-302: the tile of coordinates (0, 0), its perChannelTile resized
\* to one element, its bounds set from args.
ResizedTile(tile, args) == [tile EXCEPT !.tileBounds = args.bounds]

\* Lines 286-345: the exception leaves the function before the buffer is
\* attached; the tile is resized between the tests of lines 290-297 and those
\* of the kind of the buffer.
InitFromExternalBuffer ==
    /\ Running
    /\ extCall = "entry"
    /\ IF initFromExternalBuffer(extArgs, extArgs.externalBuffer, Len(extTiles))
       THEN /\ extCall' = "returned"
            /\ extTiles' = <<[ResizedTile(extTiles[1], extArgs)
                                 EXCEPT !.buffer = extArgs.externalBuffer]>>
       ELSE /\ extCall' = "bad_alloc"
            /\ extTiles' = IF /\ Len(extTiles) = 1
                              /\ extArgs.bitdepth = extArgs.externalBuffer.bitDepth
                           THEN <<ResizedTile(extTiles[1], extArgs)>>
                           ELSE extTiles
    /\ UNCHANGED <<extArgs, extOthers>>

----------------------------------------------------------------------------
\* insertTilesInCache

\* Largest number of channel tiles (tiles times channels) of the tile map.
MaxChannelTiles == 3

LockerStatuses == {"null", "Cached", "MustCompute", "ComputationPending"}

\* The bounds of the t-th tile of the tile map.
TileBoundsAt(t) == [x1 |-> 4 * (t - 1), y1 |-> 0, x2 |-> 4 * t, y2 |-> 4]

\* The key of channel c of the t-th tile.
TileKeyAt(t, c) ==
    ImageTileKey(1, <<PlaneID, c - 1>>, ProxyScale, 0, FALSE, BitDepth, TileBoundsAt(t))

\* A channel tile as initTileAndFetchFromCache and the render leave it.
ChannelTileAt(t, c, status, allocated) ==
    [channelIndex |-> c - 1,
     buffer |-> [NoBuffer EXCEPT !.storage = "RAM", !.allocated = allocated,
                                 !.bounds = TileBoundsAt(t), !.numComponents = 1,
                                 !.key = TileKeyAt(t, c)],
     entryLocker |-> IF status = "null" THEN NoLocker
                     ELSE [key |-> TileKeyAt(t, c), status |-> status]]

\* The lockers of status st the tile map tm holds.
KeysWithStatus(tm, st) ==
    {tm[x[1]][x[2]].entryLocker.key :
        x \in {y \in (DOMAIN tm) \X (1..2) :
                  y[2] \in DOMAIN tm[y[1]] /\ tm[y[1]][y[2]].entryLocker.status \in st}}

NoInsertCall == [pc |-> "idle", renderAborted |-> FALSE, t |-> 1, c |-> 1, call |-> 1]

\* CacheEntryLocker::insertInCache: the entry is in the cache, the key is no
\* longer under computation.
InsertInCacheEntries(locker, entries) == entries \cup {locker.key}
InsertInCacheWriters(locker, writers) == writers \ {locker.key}

\* Variant: a buffer is inserted whether it is allocated or not.
MustInsertUnallocated(status, allocated, renderAborted) ==
    status = "MustCompute" /\ ~renderAborted

\* Lines 376-377: the channel is handed to insertInCache.
MustInsert(status, allocated, renderAborted) ==
    status = "MustCompute" /\ allocated /\ ~renderAborted

\* Variant: only a must-compute locker is cleared.
MustResetMustCompute(status) == status = "MustCompute"

\* Line 381: the locker is cleared.
MustReset(status) == status # "ComputationPending"

\* Lines 363-384: the channel tile the loops visit after channel c of tile t;
\* t is past the tile map when there is none.
NextVisit(tm, t, c) ==
    IF c < Len(tm[t]) THEN [t |-> t, c |-> c + 1] ELSE [t |-> t + 1, c |-> 1]

\* Line 352: the assertion on the cache policy fails (build with assertions).
InsertAssertionFailure ==
    /\ Running
    /\ insertCall.pc = "entry"
    /\ insertPolicy = "None"
    /\ fault' = "assertion"
    /\ insertCall' = [insertCall EXCEPT !.pc = "dead"]
    /\ computing' = {}
    /\ UNCHANGED <<cached, insertOthers>>
    /\ UNCHANGED <<tileMap, insertPolicy, renderClone, aborted, insertLog, tileMap0>>

\* Lines 357-361: the abort flag of the render is read, once.
InsertPoll ==
    /\ Running
    /\ insertCall.pc = "entry"
    /\ insertCall' = [insertCall EXCEPT !.pc = "visit",
                                        !.renderAborted = IF renderClone THEN aborted ELSE FALSE]
    /\ UNCHANGED <<cacheVars, insertOthers>>
    /\ UNCHANGED <<tileMap, insertPolicy, renderClone, aborted, insertLog, tileMap0>>

\* Lines 367-383: one channel of one tile.
InsertVisit ==
    /\ Running
    /\ insertCall.pc = "visit"
    /\ LET t == insertCall.t
           c == insertCall.c
           thisChannelTile == tileMap[t][c]
           locker == thisChannelTile.entryLocker
           status == locker.status
           insert == locker # NoLocker
                     /\ MustInsert(status, thisChannelTile.buffer.allocated, insertCall.renderAborted)
           reset == locker # NoLocker /\ MustReset(status)
           next == NextVisit(tileMap, t, c)
       IN /\ cached' = IF insert THEN InsertInCacheEntries(locker, cached) ELSE cached
          /\ computing' = IF insert THEN InsertInCacheWriters(locker, computing)
                          ELSE IF reset THEN ReleaseLocker(locker, computing)
                          ELSE computing
          /\ tileMap' = IF reset THEN [tileMap EXCEPT ![t][c].entryLocker = NoLocker] ELSE tileMap
          /\ insertLog' = Append(insertLog,
                 [t |-> t, c |-> c, status |-> status, inserted |-> insert,
                  aborted |-> renderClone /\ aborted])
          /\ insertCall' = [insertCall EXCEPT !.t = next.t, !.c = next.c,
                                              !.pc = IF next.t > Len(tileMap) THEN "returned" ELSE "visit"]
    /\ UNCHANGED <<fault, insertOthers>>
    /\ UNCHANGED <<insertPolicy, renderClone, aborted, tileMap0>>

\* The caller calls insertTilesInCache once more, right after the first call.
InsertAgain ==
    /\ Running
    /\ insertCall.pc = "returned"
    /\ insertCall.call = 1
    /\ insertCall' = [NoInsertCall EXCEPT !.pc = "entry", !.call = 2]
    /\ tileMap0' = tileMap
    /\ insertLog' = <<>>
    /\ UNCHANGED <<cacheVars, insertOthers>>
    /\ UNCHANGED <<tileMap, insertPolicy, renderClone, aborted>>

\* Largest number of times the tile of an image is requested.
MaxRounds == 2

\* Lines 348-387, for the tile initTileAndFetchFromCache returned: the render
\* has run (it may have allocated the buffers, it may have been aborted), and
\* insertTilesInCache visits each channel of the tile.
InsertTilesOf(i) ==
    /\ Running
    /\ frame[i].pc = "returned"
    /\ UsesCache(i)
    /\ \E renderAborted \in BOOLEAN, rendered \in BOOLEAN :
          LET channels == {tiles[i][c] : c \in DOMAIN tiles[i]}
              insert(ch) == /\ ch.entryLocker # NoLocker
                            /\ MustInsert(ch.entryLocker.status, ch.buffer.allocated \/ rendered,
                                          renderAborted)
              reset(ch) == ch.entryLocker # NoLocker /\ MustReset(ch.entryLocker.status)
          IN /\ cached' = cached \cup {ch.entryLocker.key : ch \in {x \in channels : insert(x)}}
             /\ computing' = computing \
                    {ch.entryLocker.key : ch \in {x \in channels :
                        x.entryLocker.status = "MustCompute" /\ (insert(x) \/ reset(x))}}
             /\ tiles' = [tiles EXCEPT ![i] =
                    [c \in DOMAIN tiles[i] |->
                        IF reset(tiles[i][c]) THEN [tiles[i][c] EXCEPT !.entryLocker = NoLocker]
                        ELSE tiles[i][c]]]
    /\ frame' = [frame EXCEPT ![i].pc = "inserted"]
    /\ UNCHANGED <<image, fault, probed, cacheOps, cache0, otherVars>>

\* The image is destroyed and the same tile is requested again, for a new
\* image made with the same arguments.
NewRequest(i) ==
    /\ Running
    /\ frame[i].pc = "inserted"
    /\ frame[i].round < MaxRounds
    /\ computing' = computing \
           {tiles[i][c].entryLocker.key : c \in {x \in DOMAIN tiles[i] :
               tiles[i][x].entryLocker.status = "MustCompute"}}
    /\ tiles' = [tiles EXCEPT ![i] = <<>>]
    /\ frame' = [frame EXCEPT ![i] = [NewFrame("channel") EXCEPT !.round = frame[i].round + 1]]
    /\ probed' = [probed EXCEPT ![i] = <<>>]
    /\ cacheOps' = [cacheOps EXCEPT ![i] = 0]
    /\ UNCHANGED <<image, cached, fault, cache0, otherVars>>

\* The render is aborted by another thread, at any time.
RenderAbort ==
    /\ Running
    /\ insertCall.pc \in {"entry", "visit"}
    /\ renderClone /\ ~aborted
    /\ aborted' = TRUE
    /\ UNCHANGED <<cacheVars, insertOthers>>
    /\ UNCHANGED <<tileMap, insertPolicy, renderClone, insertCall, insertLog, tileMap0>>

\* insertTilesInCache is not running.
InsertIdle ==
    /\ tileMap = <<>>
    /\ insertPolicy = "None"
    /\ renderClone = FALSE
    /\ aborted = FALSE
    /\ insertCall = NoInsertCall
    /\ insertLog = <<>>
    /\ tileMap0 = <<>>

\* initTileAndFetchFromCache is not running.
InitTileIdle ==
    /\ image = [i \in Img |-> NoImage]
    /\ tiles = [i \in Img |-> <<>>]
    /\ frame = [i \in Img |-> NewFrame("absent")]
    /\ probed = [i \in Img |-> <<>>]
    /\ cacheOps = [i \in Img |-> 0]
    /\ cache0 = {}

\* No tile grid is being made.
GridIdle ==
    /\ gridImage = NoGridImage
    /\ gridTiles = <<>>

\* No copy is running.
CopyIdle ==
    /\ copyArgs = NoCopyArgs
    /\ copyTiles = {}
    /\ copyCall = NoCopyCall
    /\ copyWorkers = <<>>
    /\ copyWrites = {}
    /\ copyPixels = NoCopyPixels

\* checkIfCopyToTempImageIsNeeded is not running.
TempIdle ==
    /\ tempArgs = NoTempArgs
    /\ tempResult = NoTempResult
    /\ tempChain = <<>>

\* halveImage is not running.
HalveIdle ==
    /\ halveArgs = NoHalveArgs
    /\ halveCall = NoHalveCall
    /\ halveDst = {}

\* checkForNaNs is not running.
NaNIdle ==
    /\ nanArgs = NoNaNArgs
    /\ nanBuf = <<>>
    /\ nanCall = NoNaNCall
    /\ nanLog = <<>>

\* initFromExternalBuffer is not running.
ExternalIdle ==
    /\ extArgs = NoExternalArgs
    /\ extTiles = <<>>
    /\ extCall = "idle"

\* No call uses the cache.
CacheIdle ==
    /\ cached = {}
    /\ computing = {}
    /\ fault = "none"

\* The operations other than those of `groups` are not running.
IdleExcept(groups) ==
    /\ IF "initTile" \in groups THEN TRUE ELSE InitTileIdle
    /\ IF "cache" \in groups THEN TRUE ELSE CacheIdle
    /\ IF "insert" \in groups THEN TRUE ELSE InsertIdle
    /\ IF "grid" \in groups THEN TRUE ELSE GridIdle
    /\ IF "copy" \in groups THEN TRUE ELSE CopyIdle
    /\ IF "temp" \in groups THEN TRUE ELSE TempIdle
    /\ IF "halve" \in groups THEN TRUE ELSE HalveIdle
    /\ IF "nan" \in groups THEN TRUE ELSE NaNIdle
    /\ IF "external" \in groups THEN TRUE ELSE ExternalIdle

----------------------------------------------------------------------------
\* Specifications

\* One image whose tile is initialised, in front of a cache of any content.
Init ==
    /\ \E im \in ImageConfigs :
          /\ image = [i \in Img |-> IF i = 1 THEN im ELSE NoImage]
          /\ cached \in {s \in SUBSET KeysOf(im) : Cardinality(s) <= MaxCached}
    /\ cache0 = cached
    /\ computing = {}
    /\ fault = "none"
    /\ tiles = [i \in Img |-> <<>>]
    /\ frame = [i \in Img |-> IF i = 1 THEN NewFrame("channel") ELSE NewFrame("absent")]
    /\ probed = [i \in Img |-> <<>>]
    /\ cacheOps = [i \in Img |-> 0]
    /\ IdleExcept({"initTile", "cache"})

Next ==
    \E i \in Img :
        \/ BeginChannel(i)
        \/ BadAlloc(i)
        \/ NullDereference(i)
        \/ AssertionFailure(i)
        \/ WriteOnlyGet(i)
        \/ WriteOnlyEnd(i)
        \/ Lookup(i)
        \/ NoHit(i)

Spec == Init /\ [][Next]_vars

\* Two images of the same plane of the same node, each initialised by its own
\* thread, in front of the same cache. The tiles are mono channel tiles with a
\* cache policy: the first image in RAM (allocated at once) or on disk, the
\* second one on disk.
ConcurrentConfigs(i) ==
    {im \in ImageConfigs :
        /\ im.bufferFormat = "MonoChannelTiled" /\ im.numComponents = 1
        /\ im.cachePolicy # "None"
        /\ im.storage \in (IF i = 1 THEN {"Disk", "RAM"} ELSE {"Disk"})
        /\ im.tilesAllocated = (im.storage = "RAM")}

InitConc ==
    /\ \E a \in ConcurrentConfigs(1), b \in ConcurrentConfigs(2) :
          image = [i \in Img |-> IF i = 1 THEN a ELSE b]
    /\ cached \in {s \in SUBSET (KeysOf(image[1]) \cup KeysOf(image[2])) : Cardinality(s) <= MaxCached}
    /\ cache0 = cached
    /\ computing = {}
    /\ fault = "none"
    /\ tiles = [i \in Img |-> <<>>]
    /\ frame = [i \in Img |-> NewFrame("channel")]
    /\ probed = [i \in Img |-> <<>>]
    /\ cacheOps = [i \in Img |-> 0]
    /\ IdleExcept({"initTile", "cache"})

SpecConc == InitConc /\ [][Next]_vars

\* insertTilesInCache is called on an image whose tiles were initialised and
\* rendered, while another thread may abort the render. An image without cache
\* policy holds no locker.
InitInsert ==
    /\ IdleExcept({"insert", "cache"})
    /\ fault = "none"
    /\ insertPolicy \in CachePolicies
    /\ renderClone \in BOOLEAN
    /\ aborted \in {a \in BOOLEAN : a => renderClone}
    /\ \E nT \in 1..MaxChannelTiles, nC \in 1..2 :
          /\ nT * nC <= MaxChannelTiles
          /\ \E st \in [(1..nT) \X (1..nC) -> LockerStatuses],
                al \in [(1..nT) \X (1..nC) -> BOOLEAN] :
                /\ insertPolicy = "None" => \A x \in DOMAIN st : st[x] = "null"
                /\ tileMap = [t \in 1..nT |-> [c \in 1..nC |->
                                  ChannelTileAt(t, c, st[<<t, c>>], al[<<t, c>>])]]
    /\ tileMap0 = tileMap
    /\ cached = KeysWithStatus(tileMap, {"Cached"})
    /\ computing = KeysWithStatus(tileMap, {"MustCompute", "ComputationPending"})
    /\ insertCall = [NoInsertCall EXCEPT !.pc = "entry"]
    /\ insertLog = <<>>

NextInsert ==
    \/ InsertAssertionFailure
    \/ InsertPoll
    \/ InsertVisit
    \/ RenderAbort

SpecInsert == InitInsert /\ [][NextInsert]_vars

\* insertTilesInCache is called twice in a row on the same image.
NextInsertTwice ==
    \/ NextInsert
    \/ InsertAgain

SpecInsertTwice == InitInsert /\ [][NextInsertTwice]_vars

\* The tile of an image is requested, rendered and inserted in the cache,
\* then requested again.
NextRounds ==
    \/ Next
    \/ \E i \in Img : InsertTilesOf(i) \/ NewRequest(i)

SpecRounds == Init /\ [][NextRounds]_vars

\* The tiles of an image are initialised one after the other.
InitGrid ==
    /\ IdleExcept({"grid"})
    /\ gridImage \in GridImages
    /\ gridTiles = <<>>

NextGrid == InitTileBounds

SpecGrid == InitGrid /\ [][NextGrid]_vars

\* The images a tile by tile copy is made to or from, and the regions copied.
CopyImages ==
    {im \in GridImages :
        /\ im.bufferFormat = "MonoChannelTiled"
        /\ im.tileSizeX \in {2, 3} /\ im.tileSizeY = 2
        /\ im.originalBounds.x1 \in {-1, 0}
        /\ im.originalBounds.x2 - im.originalBounds.x1 <= MaxCopyWidth
        /\ im.originalBounds.y1 = 0
        /\ im.originalBounds.y2 <= 2}

RegionsOf(bounds) ==
    {r \in [x1 : bounds.x1..bounds.x2, x2 : bounds.x1..bounds.x2,
            y1 : bounds.y1..bounds.y2, y2 : bounds.y1..bounds.y2] : ~IsNull(r)}

\* The source holds a value of its own in each pixel, the destination holds
\* nothing yet.
PixelRamp(bounds) ==
    [p \in Pixels(bounds) |-> 1 + (p[2] - bounds.y1) * Width(bounds) + (p[1] - bounds.x1)]

FirstPixels(bounds, dir) ==
    [pass |-> 1, original |-> PixelRamp(bounds),
     untiled |-> IF dir = "untiledToTiled" THEN PixelRamp(bounds) ELSE [p \in Pixels(bounds) |-> 0],
     tiled |-> IF dir = "untiledToTiled" THEN [p \in Pixels(bounds) |-> 0] ELSE PixelRamp(bounds)]

\* A region is copied between a mono channel tiled image and an image of one
\* tile. The tile map holds every tile of the grid, or all but one: the case
\* the workers test for.
InitCopy ==
    /\ IdleExcept({"copy"})
    /\ \E dir \in {"untiledToTiled", "tiledToUntiled"},
          fromStorage \in {"RAM", "Disk", "GLTex"}, toStorage \in {"RAM", "GLTex"},
          im \in CopyImages, n \in 1..MaxThreads :
          \E roi \in RegionsOf(im.originalBounds) :
              /\ copyArgs = [dir |-> dir, fromStorage |-> fromStorage, toStorage |-> toStorage,
                             image |-> im, roi |-> roi, nThreads |-> n]
              /\ copyTiles \in {GridTileMap(im)} \cup {GridTileMap(im) \ {t} : t \in GridTileMap(im)}
    /\ copyCall = [NoCopyCall EXCEPT !.pc = "entry"]
    /\ copyWorkers = <<>>
    /\ copyWrites = {}
    /\ copyPixels = FirstPixels(copyArgs.image.originalBounds, copyArgs.dir)

NextCopy ==
    \/ CopyBegin
    \/ \E w \in 1..MaxThreads : WorkerCopyTile(w) \/ WorkerAbort(w)
    \/ CopyJoin
    \/ SequentialCopyTile

SpecCopy == InitCopy /\ [][NextCopy]_vars

\* A packed image is copied, whole, to a mono channel tiled image of the same
\* bounds, and the tiled image is copied back, whole, to a new packed image.
InitRoundTrip ==
    /\ IdleExcept({"copy"})
    /\ \E fromStorage \in {"RAM", "Disk", "GLTex"}, toStorage \in {"RAM", "GLTex"},
          im \in CopyImages, n \in 1..MaxThreads :
          /\ copyArgs = [dir |-> "untiledToTiled", fromStorage |-> fromStorage,
                         toStorage |-> toStorage, image |-> im, roi |-> im.originalBounds,
                         nThreads |-> n]
          /\ copyTiles = GridTileMap(im)
    /\ copyCall = [NoCopyCall EXCEPT !.pc = "entry"]
    /\ copyWorkers = <<>>
    /\ copyWrites = {}
    /\ copyPixels = FirstPixels(copyArgs.image.originalBounds, copyArgs.dir)

NextRoundTrip ==
    \/ NextCopy
    \/ CopyBack

SpecRoundTrip == InitRoundTrip /\ [][NextRoundTrip]_vars

\* checkIfCopyToTempImageIsNeeded is called for a copy between two images.
InitTemp ==
    /\ IdleExcept({"temp"})
    /\ \E fromImage \in CopyPixelsImages, toImage \in CopyPixelsImages :
          tempArgs = [fromImage |-> fromImage, toImage |-> toImage, roi |-> TileRect]
    /\ tempResult = NoTempResult
    /\ tempChain = <<>>

NextTemp == CheckIfCopyToTempImageIsNeeded

SpecTemp == InitTemp /\ [][NextTemp]_vars

\* halveImage is called for a source rectangle of any origin and size, with
\* the enclosing rectangle of half size as destination.
InitHalve ==
    /\ IdleExcept({"halve"})
    /\ cached = {} /\ computing = {} /\ fault = "none"
    /\ \E x1 \in -1..1, y1 \in -1..1, w \in 1..MaxHalveSize, h \in 1..MaxHalveSize,
          nComps \in {1, 2, 4}, bitDepth \in BitDepths, layout \in {"packed", "coplanar"},
          content \in {"ramp", "constant"} :
          \E constant \in (IF content = "ramp" THEN {0} ELSE {1, maxValue(bitDepth)}) :
              LET srcBounds == [x1 |-> x1, y1 |-> y1, x2 |-> x1 + w, y2 |-> y1 + h]
              IN halveArgs = [nComps |-> nComps, bitDepth |-> bitDepth, srcBounds |-> srcBounds,
                              dstBounds |-> HalfBounds(srcBounds), layout |-> layout,
                              content |-> content, constant |-> constant]
    /\ halveCall = [NoHalveCall EXCEPT !.pc = "entry"]
    /\ halveDst = {}

NextHalve ==
    \/ HalveBegin
    \/ HalveAssertionFailure
    \/ HalvePixel
    \/ HalveSegmentationFault

SpecHalve == InitHalve /\ [][NextHalve]_vars

\* checkForNaNs is called, twice in a row, for a region of an image of any
\* bit depth. Up to MaxNaNs elements hold the marked value: NaN in a float
\* buffer, the largest value in an integer one; the others hold an infinity
\* or a finite value.
NaNValue(bitDepth, marked, offset) ==
    IF bitDepth = "Float"
    THEN (IF marked THEN NaN ELSE IF offset % 2 = 0 THEN Infinity ELSE Finite(offset))
    ELSE (IF marked THEN Finite(maxValue(bitDepth)) ELSE Finite(offset % 2))

InitNaN ==
    /\ IdleExcept({"nan"})
    /\ cached = {} /\ computing = {} /\ fault = "none"
    /\ \E w \in 1..MaxNaNWidth, h \in 1..2, nComps \in {1, 2}, bitDepth \in BitDepths,
          layout \in {"packed", "coplanar"} :
          LET bounds == [x1 |-> -1, y1 |-> 0, x2 |-> w - 1, y2 |-> h]
              elements == Elements(layout, nComps, bounds)
          IN \E roi \in RegionsOf(bounds),
                marked \in {m \in SUBSET elements : Cardinality(m) <= MaxNaNs} :
                /\ nanArgs = [nComps |-> nComps, bitDepth |-> bitDepth, bounds |-> bounds,
                              roi |-> roi, layout |-> layout]
                /\ nanBuf = [e \in elements |-> NaNValue(bitDepth, e \in marked, e[2])]
    /\ nanCall = [NoNaNCall EXCEPT !.pc = "entry"]
    /\ nanLog = <<>>

NextNaN ==
    \/ CheckForNaNsBegin
    \/ CheckForNaNsAssertionFailure
    \/ CheckForNaNsLine
    \/ CheckForNaNsAgain

SpecNaN == InitNaN /\ [][NextNaN]_vars

\* initFromExternalBuffer is called on an image of one tile, or of two, with
\* a buffer of any kind, depth, bounds and component count; a disk mapped
\* buffer holds one channel.
ExternalBuffers ==
    {[NoBuffer EXCEPT !.storage = kind, !.allocated = TRUE, !.bounds = bounds,
                      !.numComponents = n, !.bitDepth = depth] :
        kind \in BufferKinds, bounds \in {TileRect, NullRect},
        n \in 1..RGBAComponents, depth \in {"Byte", "Float"}}

InitExternal ==
    /\ IdleExcept({"external"})
    /\ \E bitdepth \in {"Byte", "Float"}, bounds \in {TileRect, NullRect},
          numComponents \in 1..RGBAComponents, storage \in {"GLTex", "Disk", "RAM"},
          externalBuffer \in {b \in ExternalBuffers : b.storage = "Disk" => b.numComponents = 1} :
          extArgs = [bitdepth |-> bitdepth, bounds |-> bounds, numComponents |-> numComponents,
                     storage |-> storage, externalBuffer |-> externalBuffer]
    /\ \E nTiles \in 1..2 :
          extTiles = [t \in 1..nTiles |-> [buffer |-> NoBuffer, tileBounds |-> NullRect]]
    /\ extCall = "entry"

NextExternal == InitFromExternalBuffer

SpecExternal == InitExternal /\ [][NextExternal]_vars

----------------------------------------------------------------------------
\* Properties

Returned(i) == frame[i].pc = "returned"

Channels(i) == 1..Len(channelIndices(image[i]))

\* The key of the requested scale of channel c, from the fields of the image.
RequestedKey(i, c) ==
    [nodeHash |-> image[i].nodeHash,
     channelName |-> <<PlaneID, channelIndices(image[i])[c]>>,
     proxyScale |-> ProxyScale,
     mipMapLevel |-> image[i].mipMapLevel,
     isDraft |-> image[i].isDraftImage,
     bitDepth |-> BitDepth,
     tileBounds |-> TileRect]

KeyAt(i, c, level, draft) == [RequestedKey(i, c) EXCEPT !.mipMapLevel = level, !.isDraft = draft]

CachingImage(i) == image[i].cachePolicy \in {"WriteOnly", "ReadWrite"}
CpuStorage(i) == image[i].storage \in {"RAM", "Disk"}

\* A probe of the lookup loop of channel c reported a cached entry.
HasHit(i, c) == \E k \in DOMAIN probed[i][c] : probed[i][c][k].status = "Cached"

\* C1: two concurrent initTileAndFetchFromCache calls that request the same
\* key never both end with a must-compute locker for it: when one tile holds
\* the must-compute locker of the key, the other holds a locker that reports
\* cached or pending.
C1_AtMostOneMustCompute ==
    \A a \in Img, b \in Img :
        (a # b /\ Returned(a) /\ Returned(b)) =>
            \A ca \in Channels(a), cb \in Channels(b) :
                (/\ RequestedKey(a, ca) = RequestedKey(b, cb)
                 /\ tiles[a][ca].entryLocker.status = "MustCompute"
                 /\ tiles[a][ca].entryLocker.key = RequestedKey(a, ca))
                => tiles[b][cb].entryLocker.status \in {"Cached", "ComputationPending"}

C1_Witness ==
    /\ Returned(1) /\ Returned(2)
    /\ RequestedKey(1, 1) = RequestedKey(2, 1)
    /\ tiles[1][1].entryLocker = [key |-> RequestedKey(1, 1), status |-> "MustCompute"]
    /\ tiles[2][1].entryLocker = [key |-> RequestedKey(1, 1), status |-> "ComputationPending"]

\* The order the claim gives to the probes: requested level, then level 0,
\* the draft key after the non draft one and only for a draft image.
ProbeOrder(i) ==
    LET L == image[i].mipMapLevel
        d == image[i].isDraftImage
    IN <<<<L, FALSE>>>>
       \o (IF d THEN <<<<L, TRUE>>>> ELSE <<>>)
       \o (IF L # 0 THEN <<<<0, FALSE>>>> ELSE <<>>)
       \o (IF L # 0 /\ d THEN <<<<0, TRUE>>>> ELSE <<>>)

\* C2: for RAM or disk storage with a cache policy, the keys probed by the
\* lookup loop are a prefix of ProbeOrder, and no probe follows a probe that
\* reported cached.
C2_ProbeOrder ==
    \A i \in Img :
        (CachingImage(i) /\ CpuStorage(i)) =>
            \A c \in DOMAIN probed[i] :
                LET p == probed[i][c]
                    e == ProbeOrder(i)
                IN /\ Len(p) <= Len(e)
                   /\ \A k \in 1..Len(p) :
                         /\ k <= Len(e) => p[k].key = KeyAt(i, c, e[k][1], e[k][2])
                         /\ k < Len(p) => p[k].status # "Cached"

C2_Witness ==
    /\ Returned(1) /\ CachingImage(1) /\ image[1].storage = "Disk"
    /\ Len(probed[1][1]) = 4
    /\ probed[1][1][4].status = "Cached"

\* C3: with the write only policy, initTile never ends a channel on a cached
\* hit: every channel ends with a must-compute locker and a buffer that holds
\* nothing taken or derived from the cache.
C3_WriteOnlyNeverReads ==
    \A i \in Img :
        (Returned(i) /\ image[i].cachePolicy = "WriteOnly") =>
            \A c \in Channels(i) :
                /\ tiles[i][c].entryLocker.status = "MustCompute"
                /\ tiles[i][c].buffer.data = NoData

\* The lookup loop of channel c has been entered.
LoopEntered(i, c) ==
    \/ frame[i].c = c /\ frame[i].pc \in {"lookup", "noHit"}
    \/ c \in DOMAIN probed[i] /\ probed[i][c] # <<>>

\* C4: with the write only policy, an entry cached at the requested key when
\* initTile starts is removed before the lookup loop runs, and the probe of
\* the requested key in the loop reports must-compute.
C4_WriteOnlyRemovesFirst ==
    \A i \in Img :
        image[i].cachePolicy = "WriteOnly" =>
            \A c \in Channels(i) :
                (RequestedKey(i, c) \in cache0 /\ LoopEntered(i, c)) =>
                    /\ RequestedKey(i, c) \notin cached
                    /\ \A k \in DOMAIN probed[i][c] :
                          probed[i][c][k].key = RequestedKey(i, c)
                          => probed[i][c][k].status = "MustCompute"

C4_Witness ==
    /\ Returned(1) /\ image[1].cachePolicy = "WriteOnly"
    /\ RequestedKey(1, 1) \in cache0
    /\ \E k \in DOMAIN probed[1][1] :
          probed[1][1][k] = [key |-> RequestedKey(1, 1), status |-> "MustCompute"]

\* C5: when no probe of the lookup loop reports cached, initTile returns with
\* the locker of the requested key on the channel, that locker reports
\* must-compute, and the key of the storage is the requested key again.
C5_NoHitKeepsRequestedLocker ==
    \A i \in Img :
        (Returned(i) /\ CachingImage(i)) =>
            \A c \in Channels(i) :
                ~HasHit(i, c) =>
                    /\ tiles[i][c].entryLocker = [key |-> RequestedKey(i, c), status |-> "MustCompute"]
                    /\ image[i].storage = "Disk" => tiles[i][c].buffer.key = RequestedKey(i, c)

\* C6: for a non draft image no probed key is a draft key; for a draft image
\* a draft key is probed right after the non draft key of the same level
\* missed, so a draft entry is used only when the non draft one is absent.
C6_DraftOrder ==
    \A i \in Img :
        \A c \in DOMAIN probed[i] :
            LET p == probed[i][c]
            IN /\ \A k \in 1..Len(p) :
                     p[k].key.isDraft =>
                         /\ image[i].isDraftImage
                         /\ k > 1
                         /\ p[k - 1].key = [p[k].key EXCEPT !.isDraft = FALSE]
                         /\ p[k - 1].status # "Cached"
               /\ (Returned(i) /\ tiles[i][c].entryLocker.status = "Cached"
                                /\ tiles[i][c].entryLocker.key.isDraft)
                  => [tiles[i][c].entryLocker.key EXCEPT !.isDraft = FALSE] \notin cache0

C6_Witness ==
    /\ Returned(1) /\ image[1].isDraftImage
    /\ KeyAt(1, 1, image[1].mipMapLevel, FALSE) \in cache0
    /\ KeyAt(1, 1, image[1].mipMapLevel, TRUE) \in cache0
    /\ tiles[1][1].entryLocker = [key |-> KeyAt(1, 1, image[1].mipMapLevel, FALSE), status |-> "Cached"]

\* The level 0 key the lookup takes first among those in the cache when the
\* image was created.
Level0Key(i, c) ==
    IF KeyAt(i, c, 0, FALSE) \in cache0 THEN KeyAt(i, c, 0, FALSE) ELSE KeyAt(i, c, 0, TRUE)

\* The channel is cached at level 0 (at a key the image may use) and at no
\* key of the requested level.
OnlyLevel0Cached(i, c) ==
    /\ image[i].mipMapLevel > 0
    /\ KeyAt(i, c, 0, FALSE) \in cache0 \/ (image[i].isDraftImage /\ KeyAt(i, c, 0, TRUE) \in cache0)
    /\ KeyAt(i, c, image[i].mipMapLevel, FALSE) \notin cache0
    /\ KeyAt(i, c, image[i].mipMapLevel, TRUE) \notin cache0

\* C7: for RAM or disk storage, a channel cached at level 0 only ends with a
\* buffer that is the level 0 entry halved mipMapLevel times.
C7_FallbackDownscale ==
    \A i \in Img :
        (Returned(i) /\ CachingImage(i) /\ CpuStorage(i)) =>
            \A c \in Channels(i) :
                OnlyLevel0Cached(i, c) =>
                    tiles[i][c].buffer.data =
                        [origin |-> Level0Key(i, c), halved |-> image[i].mipMapLevel]

C9_NoCachePolicyNoCacheUse ==
    \A i \in Img :
        (image[i].cachePolicy = "None" /\ frame[i].pc # "absent") =>
            /\ cacheOps[i] = 0
            /\ cached = cache0 /\ computing = {}
            /\ \A c \in DOMAIN probed[i] : probed[i][c] = <<>>
            /\ \A c \in DOMAIN tiles[i] :
                  /\ tiles[i][c].entryLocker = NoLocker
                  /\ tiles[i][c].buffer.key = NoKey

C9_Witness ==
    /\ Returned(1) /\ image[1].cachePolicy = "None"
    /\ Len(tiles[1]) = 2 /\ cache0 # {}
    /\ tiles[1][2].buffer.storage = "Disk"

\* The three states of the claim: the buffer is the cached entry of a hit,
\* the buffer is the downscale of a cached entry, the buffer holds no cached
\* data and the channel has a must-compute locker.
HoldsCachedEntry(i, c) ==
    /\ tiles[i][c].entryLocker.status = "Cached"
    /\ tiles[i][c].buffer.data = [origin |-> tiles[i][c].entryLocker.key, halved |-> 0]

HoldsDownscaledEntry(i, c) ==
    /\ tiles[i][c].entryLocker.status = "Cached"
    /\ tiles[i][c].buffer.data.origin = tiles[i][c].entryLocker.key
    /\ tiles[i][c].buffer.data.halved > 0

HoldsWriteHandle(i, c) ==
    /\ tiles[i][c].entryLocker.status = "MustCompute"
    /\ tiles[i][c].buffer.data = NoData

FirstLevel(i) == IF CpuStorage(i) THEN image[i].mipMapLevel ELSE 0

\* The states the code leaves a channel in.
\* (a) a hit at the first level looked up: the buffer is not downscaled, and
\*     for a disk storage it is the cached entry;
HitAtFirstLevel(i, c) ==
    /\ CachingImage(i)
    /\ tiles[i][c].entryLocker.status = "Cached"
    /\ tiles[i][c].entryLocker.key.mipMapLevel = FirstLevel(i)
    /\ tiles[i][c].buffer.data.halved = 0
    /\ image[i].storage = "Disk" => tiles[i][c].buffer.data.origin = tiles[i][c].entryLocker.key

\* (b) a hit at level 0 below the first level: the buffer is replaced by the
\*     downscale, by the requested level, of the buffer the probe was made
\*     with (for a disk storage, the cached entry);
HitAtLevel0Downscaled(i, c) ==
    /\ CachingImage(i)
    /\ tiles[i][c].entryLocker.status = "Cached"
    /\ tiles[i][c].entryLocker.key.mipMapLevel = 0 /\ FirstLevel(i) # 0
    /\ tiles[i][c].buffer.data.halved = image[i].mipMapLevel
    /\ image[i].storage = "Disk" => tiles[i][c].buffer.data.origin = tiles[i][c].entryLocker.key

\* (c) no hit: the buffer holds no cached data and the channel has the locker
\*     recorded for the requested key, which does not report cached (none is
\*     recorded for a GPU texture at a non zero mip level);
NoHitWriteHandle(i, c) ==
    /\ CachingImage(i)
    /\ tiles[i][c].buffer.data = NoData
    /\ \/ /\ tiles[i][c].entryLocker.key = RequestedKey(i, c)
          /\ tiles[i][c].entryLocker.status \in {"MustCompute", "ComputationPending"}
       \/ /\ tiles[i][c].entryLocker = NoLocker
          /\ image[i].storage = "GLTex" /\ image[i].mipMapLevel # 0

\* (d) no cache policy: a local buffer and no locker.
LocalBuffer(i, c) ==
    /\ image[i].cachePolicy = "None"
    /\ tiles[i][c].entryLocker = NoLocker
    /\ tiles[i][c].buffer.data = NoData

----------------------------------------------------------------------------
\* insertTilesInCache: properties

InsertReturned == insertCall.pc = "returned"

\* The channel tiles of the tile map.
ChannelTiles == {x \in (DOMAIN tileMap0) \X (1..2) : x[2] \in DOMAIN tileMap0[x[1]]}

\* The channel had a must-compute locker and an allocated buffer, and the
\* render was not aborted when the call read the flag.
Insertable(t, c) ==
    /\ tileMap0[t][c].entryLocker.status = "MustCompute"
    /\ tileMap0[t][c].buffer.allocated
    /\ ~insertCall.renderAborted

\* C11: insertInCache is called for a channel exactly when its locker is
\* must-compute, its buffer is allocated and the render was not aborted when
\* the call read the abort flag; at return the cache holds the entries it
\* had and those of the inserted channels, no other.
C11_InsertIffMustComputeAllocatedNotAborted ==
    /\ \A k \in 1..Len(insertLog) :
          insertLog[k].inserted <=> Insertable(insertLog[k].t, insertLog[k].c)
    /\ InsertReturned =>
          \A x \in ChannelTiles :
              TileKeyAt(x[1], x[2]) \in cached <=>
                  \/ tileMap0[x[1]][x[2]].entryLocker.status = "Cached"
                  \/ Insertable(x[1], x[2])

\* A call returned that inserted one channel and left out a must-compute
\* channel whose buffer is not allocated.
C11_Witness ==
    /\ InsertReturned
    /\ \E k \in 1..Len(insertLog) : insertLog[k].inserted
    /\ \E k \in 1..Len(insertLog) :
          /\ insertLog[k].status = "MustCompute"
          /\ ~insertLog[k].inserted
          /\ ~tileMap0[insertLog[k].t][insertLog[k].c].buffer.allocated

\* C12: at return a locker whose status was computation-pending is the one
\* the channel had, every other locker is cleared, whether the channel was
\* inserted or not.
C12_LockerClearedUnlessPending ==
    InsertReturned =>
        /\ Len(insertLog) = Cardinality(ChannelTiles)
        /\ \A k \in 1..Len(insertLog) :
              LET t == insertLog[k].t
                  c == insertLog[k].c
              IN /\ insertLog[k].status = tileMap0[t][c].entryLocker.status
                 /\ tileMap[t][c].entryLocker =
                       IF insertLog[k].status = "ComputationPending"
                       THEN tileMap0[t][c].entryLocker ELSE NoLocker
                 /\ tileMap[t][c].buffer = tileMap0[t][c].buffer

\* A call returned that kept a pending locker and cleared a must-compute
\* locker without inserting the channel.
C12_Witness ==
    /\ InsertReturned
    /\ \E k \in 1..Len(insertLog) :
          /\ insertLog[k].status = "ComputationPending"
          /\ tileMap[insertLog[k].t][insertLog[k].c].entryLocker.status = "ComputationPending"
    /\ \E k \in 1..Len(insertLog) :
          /\ insertLog[k].status = "MustCompute"
          /\ ~insertLog[k].inserted
          /\ tileMap[insertLog[k].t][insertLog[k].c].entryLocker = NoLocker

\* C13: no channel is inserted once the render is aborted, whenever the abort
\* is raised.
C13_AbortedNeverInserted ==
    \A k \in 1..Len(insertLog) : insertLog[k].inserted => ~insertLog[k].aborted

----------------------------------------------------------------------------
\* The tile grid: properties

GridDone == gridImage # NoGridImage /\ Len(gridTiles) = Len(TileCoords(gridImage))

\* C14: the tileBounds of the tiles of a mono channel tiled image are pairwise
\* disjoint, and once every tile of the grid is initialised their union is
\* originalBounds.
C14_TileBoundsPartition ==
    gridImage.bufferFormat = "MonoChannelTiled" =>
        /\ \A j, k \in 1..Len(gridTiles) :
              j # k => Pixels(gridTiles[j].tileBounds) \cap Pixels(gridTiles[k].tileBounds) = {}
        /\ \A k \in 1..Len(gridTiles) :
              Pixels(gridTiles[k].tileBounds) \subseteq Pixels(gridImage.originalBounds)
        /\ GridDone =>
              UNION {Pixels(gridTiles[k].tileBounds) : k \in 1..Len(gridTiles)}
                  = Pixels(gridImage.originalBounds)

\* A grid of several lines and columns is complete, for bounds of negative
\* origin that are not aligned to the tiles and not a multiple of their size.
C14_Witness ==
    /\ GridDone
    /\ gridImage.bufferFormat = "MonoChannelTiled"
    /\ gridImage.tileSizeX = 2 /\ gridImage.tileSizeY = 2
    /\ gridImage.originalBounds.x1 = -3 /\ gridImage.originalBounds.x2 = 2
    /\ gridImage.originalBounds.y1 = -1 /\ gridImage.originalBounds.y2 = 2
    /\ Len(gridTiles) = 6
    /\ \E k \in 1..Len(gridTiles) : Cardinality(Pixels(gridTiles[k].tileBounds)) = 1

----------------------------------------------------------------------------
\* The channels of a tile: properties

\* C15: when initTileAndFetchFromCache returns, perChannelTile is not empty
\* and is either one entry of channelIndex -1 (packed and coplanar layouts) or
\* one entry per enabled channel, of increasing channelIndex >= 0 (mono
\* channel tiles).
C15_ChannelIndices ==
    \A i \in Img :
        Returned(i) =>
            LET t == tiles[i]
            IN /\ Len(t) >= 1
               /\ IF image[i].bufferFormat = "MonoChannelTiled"
                  THEN /\ {t[k].channelIndex : k \in 1..Len(t)} = image[i].enabledChannels
                       /\ Len(t) = Cardinality(image[i].enabledChannels)
                       /\ \A k \in 1..Len(t) : t[k].channelIndex >= 0
                       /\ \A j, k \in 1..Len(t) : j < k => t[j].channelIndex < t[k].channelIndex
                  ELSE /\ Len(t) = 1
                       /\ t[1].channelIndex = -1

\* The call returned for a mono channel tile of a two channel layer of which
\* only the second channel is enabled.
C15_Witness ==
    /\ Returned(1)
    /\ image[1].bufferFormat = "MonoChannelTiled"
    /\ image[1].numComponents = 2
    /\ image[1].enabledChannels = {1}
    /\ Len(tiles[1]) = 1
    /\ tiles[1][1].channelIndex = 1

----------------------------------------------------------------------------
\* The tile by tile copies: properties

CopyReturned == copyCall.pc = "returned"
CopyParallel == UseProcessor(copyArgs.fromStorage, copyArgs.toStorage)

\* No tile of the grid is missing from the tile map.
CopyTilesComplete == GridTileMap(copyArgs.image) \subseteq copyTiles

\* The threads whose range holds index k of a list of n tiles.
ThreadsOf(k, n) ==
    {w \in 1..copyArgs.nThreads :
        LET range == getThreadRange(w - 1, copyArgs.nThreads, 0, n)
        IN range.fromIndex <= k /\ k < range.toIndex}

\* C16: the ranges of the threads partition the tile list; a thread copies
\* only tiles of its range, no pixel is the destination of the copies of two
\* threads, and when every thread is done each listed tile was copied once.
C16_ThreadRangesPartition ==
    (copyCall.pc \in {"launched", "returned"} /\ CopyParallel) =>
        LET n == Len(copyCall.tileIndices)
        IN /\ \A k \in 0..(n - 1) : Cardinality(ThreadsOf(k, n)) = 1
           /\ \A wr \in copyWrites : ThreadsOf(wr.index, n) = {wr.worker}
           /\ \A a, b \in copyWrites :
                 (a.found /\ b.found /\ a.worker # b.worker) =>
                     Pixels(a.roi) \cap Pixels(b.roi) = {}
           /\ (CopyReturned /\ CopyTilesComplete /\ n > 0) =>
                 /\ \A k \in 0..(n - 1) :
                       Cardinality({wr \in copyWrites : wr.index = k}) = 1
                 /\ UNION {Pixels(wr.roi) : wr \in copyWrites} = Pixels(copyArgs.roi)

\* Two threads have copied the three tiles of a region, each a part of them.
C16_Witness ==
    /\ CopyReturned /\ CopyParallel /\ CopyTilesComplete
    /\ copyArgs.nThreads = 2
    /\ Len(copyCall.tileIndices) = 3
    /\ {wr.worker : wr \in copyWrites} = {1, 2}
    /\ Cardinality(copyWrites) = 3

\* A listed tile was not found in the tile map.
CopyFaulted ==
    \E k \in 1..Len(copyCall.tileIndices) :
        FindTile(GridTileMap(copyArgs.image) \cap copyTiles, copyCall.tileIndices[k]) = {}

\* C17: when a thread does not find a listed tile, the copy ends with a
\* failure its caller sees and has copied nothing.
C17_FaultFailsWholeCopy ==
    (CopyReturned /\ CopyParallel /\ CopyFaulted) =>
        /\ copyCall.result = "Failed"
        /\ copyWrites = {}

----------------------------------------------------------------------------
\* checkIfCopyToTempImageIsNeeded: properties

TempReturned == tempResult # NoTempResult
IsTexture(im) == im.storage = "GLTex"

\* A RGBA packed full rect image of the given bounds.
PackedRGBAOf(im, bounds) ==
    im.bufferFormat = "RGBAPackedFullRect" /\ im.numComponents = 4 /\ im.bounds = bounds

\* C18 as stated: a temporary image is returned exactly when both images are
\* mono channel tiled, or both are textures of different contexts, or one is a
\* texture and the other one is not a RGBA packed image of the texture's bounds.
C18_TempIffStated ==
    TempReturned =>
        LET f == tempArgs.fromImage
            t == tempArgs.toImage
        IN tempResult.created <=>
              \/ BothTiled(f, t)
              \/ IsTexture(f) /\ IsTexture(t) /\ f.context # t.context
              \/ IsTexture(f) /\ ~IsTexture(t) /\ ~PackedRGBAOf(t, f.bounds)
              \/ IsTexture(t) /\ ~IsTexture(f) /\ ~PackedRGBAOf(f, t.bounds)

\* C18, amended: a temporary image is returned exactly when both images are
\* mono channel tiled, or the source is a texture and the destination is a
\* texture of another context or is not a RGBA packed image of the source's
\* bounds, or the destination alone is a texture and the source is not a RGBA
\* packed image, whatever its bounds.
C18_TempIffCode ==
    TempReturned =>
        LET f == tempArgs.fromImage
            t == tempArgs.toImage
        IN tempResult.created <=>
              \/ BothTiled(f, t)
              \/ IsTexture(f) /\ IsTexture(t) /\ f.context # t.context
              \/ IsTexture(f) /\ ~PackedRGBAOf(t, f.bounds)
              \/ IsTexture(t) /\ ~IsTexture(f) /\ ~PackedRGBAOf(f, f.bounds)

\* No temporary image for a RGBA packed image copied to a texture of other
\* bounds.
C18_Witness ==
    /\ TempReturned
    /\ ~tempResult.created
    /\ IsTexture(tempArgs.toImage) /\ ~IsTexture(tempArgs.fromImage)
    /\ tempArgs.fromImage.bounds # tempArgs.toImage.bounds

----------------------------------------------------------------------------
\* halveImage: properties

HalveReturned == halveCall.pc = "returned"
HalveSupported == halveArgs.bitDepth \in {"Byte", "Short", "Float"}

\* The element of component k of the source pixel (sx, sy), 0 outside of
\* srcBounds.
Sample(sx, sy, k) ==
    IF pick(halveArgs.srcBounds.x1, sx, halveArgs.srcBounds.x2)
       /\ pick(halveArgs.srcBounds.y1, sy, halveArgs.srcBounds.y2)
    THEN SrcElement(halveArgs, ChannelBuffer(halveArgs.layout, k),
                    ChannelPointer(halveArgs.layout, halveArgs.nComps, halveArgs.srcBounds, sx, sy, k))
    ELSE 0

\* The number of source pixels of the destination pixel (x, y) within srcBounds.
Samples(x, y) ==
    Cardinality({p \in {2 * x, 2 * x + 1} \X {2 * y, 2 * y + 1} :
                    /\ pick(halveArgs.srcBounds.x1, p[1], halveArgs.srcBounds.x2)
                    /\ pick(halveArgs.srcBounds.y1, p[2], halveArgs.srcBounds.y2)})

\* The average of the source pixels of (x, y) that lie within srcBounds.
Average(x, y, k) ==
    Quotient(halveArgs.bitDepth,
             Sample(2 * x, 2 * y, k) + Sample(2 * x + 1, 2 * y, k)
                 + Sample(2 * x, 2 * y + 1, k) + Sample(2 * x + 1, 2 * y + 1, k),
             Samples(x, y))

\* C19: every element halveImage writes is the average of the source pixels
\* (2x,2y), (2x+1,2y), (2x,2y+1), (2x+1,2y+1) that lie within srcBounds, and
\* when it returns it has written every element of the destination.
C19_HalveAverages ==
    HalveSupported =>
        /\ \A e \in halveDst : e.value = Average(e.x, e.y, e.k)
        /\ HalveReturned =>
              \A x \in halveArgs.dstBounds.x1..(halveArgs.dstBounds.x2 - 1),
                 y \in halveArgs.dstBounds.y1..(halveArgs.dstBounds.y2 - 1),
                 k \in 0..(halveArgs.nComps - 1) :
                  \E e \in halveDst : e.x = x /\ e.y = y /\ e.k = k

\* The value is v: the integer v, or a fraction equal to v.
IsValue(bitDepth, value, v) ==
    IF bitDepth = "Float" THEN value[1] = v * value[2] ELSE value = v

\* C20: halving a source whose elements all hold v gives a destination whose
\* elements all hold v.
C20_HalveConstant ==
    (HalveSupported /\ halveArgs.content = "constant") =>
        \A e \in halveDst : IsValue(halveArgs.bitDepth, e.value, halveArgs.constant)

\* The elements of the pixels of roi.
RoiElements(args) ==
    {<<ChannelBuffer(args.layout, k),
       ChannelPointer(args.layout, args.nComps, args.bounds, x, y, k)>> :
        x \in args.roi.x1..(args.roi.x2 - 1), y \in args.roi.y1..(args.roi.y2 - 1),
        k \in 0..(args.nComps - 1)}

\* The NaN elements of roi in the buffers b.
NaNsOfRoi(b) == {e \in RoiElements(nanArgs) \cap DOMAIN b : b[e] = NaN}

\* The buffers b once each NaN of roi is replaced with 1.
NaNsReplaced(b) == [e \in DOMAIN b |-> IF e \in NaNsOfRoi(b) THEN Finite(1) ELSE b[e]]

\* C21: a scan of a float buffer replaces every NaN element of roi with 1,
\* leaves every other element of roi (infinities too) and every element
\* outside of roi as it was, and returns true iff it replaced an element.
C21_NaNsOfRoiReplaced ==
    nanArgs.bitDepth = "Float" =>
        \A n \in 1..Len(nanLog) :
            /\ nanLog[n].after = NaNsReplaced(nanLog[n].before)
            /\ nanLog[n].result = (NaNsOfRoi(nanLog[n].before) # {})

\* C22: when the region scanned holds k >= 1 NaN elements, the first scan
\* replaces exactly those k elements and returns true, and the second scan
\* returns false and changes no element.
C22_SecondScanClean ==
    (/\ nanArgs.bitDepth = "Float"
     /\ Len(nanLog) = 2
     /\ NaNsOfRoi(nanLog[1].before) # {}) =>
        /\ nanLog[1].after = NaNsReplaced(nanLog[1].before)
        /\ nanLog[1].result
        /\ nanLog[2].after = nanLog[2].before
        /\ ~nanLog[2].result

\* C25: with the half float depth neither halveImage nor checkForNaNs
\* returns: the call ends on the failed assertion.
C25_HalfNeverReturns ==
    /\ nanArgs.bitDepth = "Half" => nanCall.pc # "returned"
    /\ halveArgs.bitDepth = "Half" => halveCall.pc # "returned"

\* C26: for the 8 bit and 16 bit integer depths checkForNaNs writes no
\* element, during the scan and at its end, and returns false.
C26_IntegerNoOp ==
    nanArgs.bitDepth \in {"Byte", "Short"} =>
        /\ nanCall.pc \in {"loop", "returned"} => nanBuf = nanCall.buf0
        /\ \A n \in 1..Len(nanLog) :
              /\ nanLog[n].after = nanLog[n].before
              /\ ~nanLog[n].result

C26_Witness ==
    /\ nanArgs.bitDepth = "Short"
    /\ Len(nanLog) = 2
    /\ \E e \in RoiElements(nanArgs) : nanBuf[e] = Finite(maxValue("Short"))
    /\ \E e \in RoiElements(nanArgs) : nanBuf[e] = Finite(0)
    /\ Len(nanLog[1].tested) > 1

\* The bit depth, the bounds, the component count and the storage of the
\* buffer are those of args.
ExternalAgrees(args, b) ==
    /\ b.bitDepth = args.bitdepth
    /\ b.bounds = args.bounds
    /\ b.numComponents = args.numComponents
    /\ b.storage = args.storage

\* C23: initFromExternalBuffer throws for every buffer whose bit depth,
\* bounds, component count or storage differs from that of args, whatever
\* the kind of the buffer; the buffer it attaches is the one given and
\* agrees with args on all four.
C23_MismatchRejected ==
    /\ (extCall # "idle" /\ ~ExternalAgrees(extArgs, extArgs.externalBuffer))
          => extCall \in {"entry", "bad_alloc"}
    /\ extCall = "bad_alloc" => \A t \in 1..Len(extTiles) : extTiles[t].buffer = NoBuffer
    /\ extCall = "returned" =>
          /\ extTiles[1].buffer = extArgs.externalBuffer
          /\ ExternalAgrees(extArgs, extTiles[1].buffer)

\* C24: a packed image copied whole to a mono channel tiled image of the same
\* bounds, then back whole to a new packed image: when both copies have
\* returned, every pixel of the new image holds what the first image held
\* (and so did every pixel of the tiles after the first copy), whatever the
\* tile size, the bounds, the storages and the number of threads.
C24_RoundTripIdentity ==
    (CopyReturned /\ copyArgs.roi = copyArgs.image.originalBounds /\ CopyTilesComplete) =>
        /\ copyPixels.tiled = copyPixels.original
        /\ copyPixels.pass = 2 => copyPixels.untiled = copyPixels.original

\* Both copies of a round trip returned, made by two threads each, over tiles
\* that the bounds cut on both sides.
C24_Witness ==
    /\ CopyReturned /\ copyPixels.pass = 2 /\ CopyParallel /\ CopyTilesComplete
    /\ copyArgs.nThreads = 2
    /\ copyArgs.roi = copyArgs.image.originalBounds
    /\ copyArgs.image.originalBounds.x1 = -1
    /\ copyArgs.image.originalBounds.x2 = 3
    /\ Len(copyCall.tileIndices) = 3
    /\ copyPixels.untiled = copyPixels.original

\* Both storages are in RAM or on disk.
BothRAMOrDisk ==
    /\ copyArgs.fromStorage \in {"RAM", "Disk"}
    /\ copyArgs.toStorage \in {"RAM", "Disk"}

\* The copies of a copy function that lists `list`: for each tile of the
\* list, in its place, the tile and the part of roi that lies in its bounds.
ExpectedCopies(list) ==
    {<<k - 1, list[k], Intersection(tileBounds(copyArgs.image, list[k]), copyArgs.roi)>> :
        k \in 1..Len(list)}

\* C27: the copy is handed to the threads exactly when both storages are in
\* RAM or on disk, and the copies made (tile, part of roi in the tile) are
\* the same for every number of threads and for the calling thread alone:
\* one copy for each listed tile, of tileBounds intersected with roi.
C27_SameCopiesOnBothPaths ==
    /\ copyCall.pc = "launched" => BothRAMOrDisk
    /\ copyCall.pc = "sequential" => ~BothRAMOrDisk
    /\ (CopyReturned /\ copyCall.tileIndices # <<>>) => ((copyWorkers # <<>>) <=> BothRAMOrDisk)
    /\ (CopyReturned /\ CopyTilesComplete) =>
          /\ {<<wr.index, wr.coord, wr.roi>> : wr \in copyWrites}
                = ExpectedCopies(copyCall.tileIndices)
          /\ Cardinality(copyWrites) = Len(copyCall.tileIndices)

\* Two threads have copied the two tiles of a region, one each.
C27_Witness ==
    /\ CopyReturned /\ CopyTilesComplete /\ BothRAMOrDisk
    /\ copyArgs.nThreads = 2
    /\ Len(copyCall.tileIndices) = 2
    /\ \E a, b \in copyWrites : a.worker = 1 /\ b.worker = 2 /\ a.roi # b.roi

\* C28: for a region inside the bounds the tiles listed are the tiles whose
\* bounds meet the region, each listed once; the region copied for a tile is
\* its own part of roi, never empty and never that of another tile; the
\* rectangle of the tiles is a whole number of tiles wide and high.
C28_ListedTilesMeetRoi ==
    (copyCall.pc \in {"launched", "sequential", "returned"} /\ CopyTilesComplete) =>
        LET im == copyArgs.image
            list == copyCall.tileIndices
            tilesRect == getTilesCoordinates(im, copyTiles, copyArgs.roi)
        IN /\ {list[k] : k \in 1..Len(list)}
                 = {t.coord : t \in {g \in GridTileMap(im) :
                                        ~IsNull(Intersection(g.tileBounds, copyArgs.roi))}}
           /\ \A j, k \in 1..Len(list) : j # k => list[j] # list[k]
           /\ Width(tilesRect) % im.tileSizeX = 0
           /\ Height(tilesRect) % im.tileSizeY = 0
           /\ \A wr \in copyWrites :
                 /\ ~IsNull(wr.roi)
                 /\ wr.roi = Intersection(tileBounds(im, wr.coord), copyArgs.roi)

\* A region that starts and ends inside tiles, and meets two of the three
\* tiles of the image, was copied.
C28_Witness ==
    /\ CopyReturned /\ CopyTilesComplete
    /\ Len(copyCall.tileIndices) = 2
    /\ Cardinality(GridTileMap(copyArgs.image)) = 3
    /\ Cardinality(copyWrites) = 2
    /\ copyArgs.roi.x1 % copyArgs.image.tileSizeX # 0
    /\ copyArgs.roi.x2 % copyArgs.image.tileSizeX # 0

\* C29: an image with a cache policy has a cachedBuffer, whatever its
\* storage: no call of initTileAndFetchFromCache has called setKey on a null
\* cachedBuffer, handed one to the cache or died on one.
C29_CachedBufferNeverNull ==
    /\ fault # "nullDereference"
    /\ \A i \in Img :
          (image[i] # NoImage /\ UsesCache(i) /\ cacheOps[i] > 0) => cachedBufferSet(image[i])

\* C30: when the lookup loop has ended without a cached tile, the locker of
\* the requested key was retained, whatever the storage, the mip map level
\* and the draft flag.
C30_RequestedLockerRetained ==
    \A i \in Img :
        (image[i] # NoImage /\ frame[i].pc = "noHit") =>
            frame[i].requestedScaleLocker # NoLocker

\* The element of component k the kernel means to read for the sample a, b,
\* c or d of the destination pixel (x, y).
IntendedSample(which, x, y, k) ==
    ChannelPointer(halveArgs.layout, halveArgs.nComps, halveArgs.srcBounds,
                   2 * x + (IF which \in {"b", "d"} THEN 1 ELSE 0),
                   2 * y + (IF which \in {"c", "d"} THEN 1 ELSE 0), k)

\* C34: every element halveImage reads lies inside the source buffer and is
\* the element of the source pixel (2x, 2y), (2x+1, 2y), (2x, 2y+1) or
\* (2x+1, 2y+1) it is read for, and every element written lies inside the
\* destination buffer, at the pixel (x, y).
C34_HalvePointersInStep ==
    HalveSupported =>
        \A e \in halveDst :
            /\ \A smp \in e.samples :
                  /\ InBuffer(halveArgs.layout, halveArgs.nComps, halveArgs.srcBounds, smp[2])
                  /\ smp[2] = IntendedSample(smp[1], e.x, e.y, e.k)
            /\ InBuffer(halveArgs.layout, halveArgs.nComps, halveArgs.dstBounds, e.offset)
            /\ e.offset = ChannelPointer(halveArgs.layout, halveArgs.nComps, halveArgs.dstBounds,
                                         e.x, e.y, e.k)

\* The values of the samples read for an element, and their exact sum.
SampleValues(e) == {smp[3] : smp \in e.samples}
SampleOf(e, which) ==
    IF \E smp \in e.samples : smp[1] = which
    THEN (CHOOSE smp \in e.samples : smp[1] = which)[3] ELSE 0
ExactSum(e) == SampleOf(e, "a") + SampleOf(e, "b") + SampleOf(e, "c") + SampleOf(e, "d")

\* C36: for the 8 bit and 16 bit depths the sum of the samples is exact (at
\* most 4 times the largest value, no wrap), and the element written is that
\* sum divided by the number of samples, truncated: a value between the
\* smallest and the largest of the samples.
C36_HalveSumExact ==
    halveArgs.bitDepth \in {"Byte", "Short"} =>
        \A e \in halveDst :
            /\ e.total = ExactSum(e)
            /\ e.total <= 4 * maxValue(halveArgs.bitDepth)
            /\ e.value = ExactSum(e) \div Cardinality(e.samples)
            /\ \E lo, hi \in SampleValues(e) :
                  /\ \A v \in SampleValues(e) : lo <= v /\ v <= hi
                  /\ lo <= e.value /\ e.value <= hi

\* An element of a 16 bit image was written from four samples that hold the
\* largest value.
C36_Witness ==
    /\ HalveReturned
    /\ halveArgs.bitDepth = "Short"
    /\ \E e \in halveDst :
          /\ Cardinality(e.samples) = 4
          /\ SampleValues(e) = {maxValue("Short")}
          /\ e.value = maxValue("Short")
    /\ \E e \in halveDst : Cardinality(e.samples) = 2

\* The elements of the pixels of roi, line after line, the components of a
\* pixel one after the other.
RECURSIVE RoiElementsInOrder(_, _)
RoiElementsInOrder(args, j) ==
    IF j >= Width(args.roi) * Height(args.roi) * args.nComps THEN <<>>
    ELSE LET k == j % args.nComps
             x == args.roi.x1 + ((j \div args.nComps) % Width(args.roi))
             y == args.roi.y1 + ((j \div args.nComps) \div Width(args.roi))
         IN <<<<ChannelBuffer(args.layout, k),
                ChannelPointer(args.layout, args.nComps, args.bounds, x, y, k)>>>>
            \o RoiElementsInOrder(args, j + 1)

\* C35: a scan tests each element of roi once, in the order of the pixels,
\* and tests or writes no element outside of roi.
C35_ScanVisitsRoiOnce ==
    nanArgs.bitDepth \in {"Byte", "Short", "Float"} =>
        \A n \in 1..Len(nanLog) :
            /\ nanLog[n].tested = RoiElementsInOrder(nanArgs, 0)
            /\ \A e \in DOMAIN nanLog[n].before :
                  e \notin RoiElements(nanArgs) => nanLog[n].after[e] = nanLog[n].before[e]

\* C37: a second call of insertTilesInCache made right after the first one
\* inserts nothing and changes no locker; the lockers the first call left
\* are those whose status is computation-pending, and the second call leaves
\* them in place.
C37_InsertIdempotent ==
    insertCall.call = 2 =>
        /\ \A k \in 1..Len(insertLog) : ~insertLog[k].inserted
        /\ tileMap = tileMap0
        /\ \A x \in ChannelTiles :
              tileMap[x[1]][x[2]].entryLocker # NoLocker =>
                  tileMap[x[1]][x[2]].entryLocker.status = "ComputationPending"

\* The second call returned: it went over a pending locker, still in place,
\* and over a channel the first call had inserted.
C37_Witness ==
    /\ InsertReturned /\ insertCall.call = 2
    /\ Len(insertLog) >= 2
    /\ \E k \in 1..Len(insertLog) : insertLog[k].status = "ComputationPending"
    /\ \E x \in ChannelTiles :
          /\ tileMap[x[1]][x[2]].entryLocker = NoLocker
          /\ tileMap[x[1]][x[2]].buffer.allocated
          /\ TileKeyAt(x[1], x[2]) \in cached

\* C38: the copy into the temporary image the call has just created needs at
\* most one further temporary image: the chain of nested temporary images is
\* bounded and no image of the chain is created for the same copy twice.
C38_TempChainBounded ==
    TempReturned =>
        /\ Len(tempChain) <= 2
        /\ tempResult.created <=> Len(tempChain) >= 1
        /\ tempResult.created => tempChain[1] = tempResult

\* A temporary image was created for two images of mono channel tiles, and
\* the copy of the source into it was direct.
C38_Witness ==
    /\ TempReturned
    /\ BothTiled(tempArgs.fromImage, tempArgs.toImage)
    /\ Len(tempChain) = 1
    /\ tempChain[1].bounds = tempArgs.roi

C39_UnchangedWhenTilesFound ==
    [][(CopyParallel \/ CopyTilesComplete) => copyTiles' = copyTiles]_vars

\* The lockers image i refers to: those of its channels and those the locals
\* of its running call hold.
LockersHeld(i) ==
    {tiles[i][c].entryLocker : c \in DOMAIN tiles[i]}
        \cup {frame[i].locker, frame[i].requestedScaleLocker}

\* C31: when initTileAndFetchFromCache has returned, the locals of the call
\* hold no locker, a channel holds a must-compute locker for its requested key
\* only, and the keys under computation are exactly those a must-compute
\* locker is still held for: each must-compute locker of a fallback key or of
\* the write only probe was released.
C31_OnlyRequestedMustCompute ==
    /\ \A i \in Img :
          Returned(i) =>
              /\ frame[i].locker = NoLocker /\ frame[i].requestedScaleLocker = NoLocker
              /\ \A c \in Channels(i) :
                    tiles[i][c].entryLocker.status = "MustCompute" =>
                        tiles[i][c].entryLocker.key = RequestedKey(i, c)
    /\ Running =>
          computing = {l.key : l \in {h \in UNION {LockersHeld(i) : i \in Img} :
                                          h.status = "MustCompute"}}

\* The first call probed the key of level 0 as a fallback and was granted its
\* computation, then returned with the locker of its own key; the second
\* call, which requests level 0, was granted the computation of that key.
C31_Witness ==
    /\ Returned(1) /\ Returned(2)
    /\ image[1].mipMapLevel # 0 /\ image[2].mipMapLevel = 0
    /\ image[1].cachePolicy = "WriteOnly"
    /\ \E k \in DOMAIN probed[1][1] :
          probed[1][1][k] = [key |-> RequestedKey(2, 1), status |-> "MustCompute"]
    /\ tiles[1][1].entryLocker = [key |-> RequestedKey(1, 1), status |-> "MustCompute"]
    /\ tiles[2][1].entryLocker = [key |-> RequestedKey(2, 1), status |-> "MustCompute"]

\* C33: the full scale view made around the buffer of a channel of a mono
\* channel tiled image is accepted by initFromExternalBuffer whatever the
\* number of components of the layer and the enabled channels: no call ends
\* with the std::bad_alloc of the view after its level 0 hit.
C33_FullScaleViewAccepted ==
    \A i \in Img :
        (image[i].bufferFormat = "MonoChannelTiled" /\ frame[i].pc = "threw") =>
            ~frame[i].isCached

\* C32: for a RAM or disk image whose channel is cached at level 0 only, each
\* request ends on the cached locker of the level 0 key, insertTilesInCache
\* inserts nothing for the channel and clears its locker, and the keys of the
\* requested level are still absent from the cache, whatever the number of
\* requests.
C32_FallbackNeverInserted ==
    \A i \in Img :
        (image[i] # NoImage /\ CachingImage(i) /\ CpuStorage(i)) =>
            \A c \in Channels(i) :
                OnlyLevel0Cached(i, c) =>
                    /\ KeyAt(i, c, image[i].mipMapLevel, FALSE) \notin cached
                    /\ KeyAt(i, c, image[i].mipMapLevel, TRUE) \notin cached
                    /\ Level0Key(i, c) \in cached
                    /\ Returned(i) =>
                          tiles[i][c].entryLocker = [key |-> Level0Key(i, c), status |-> "Cached"]
                    /\ frame[i].pc = "inserted" => tiles[i][c].entryLocker = NoLocker

\* The second request of a disk tile cached at level 0 only has returned, its
\* buffer downscaled from the level 0 entry again.
C32_Witness ==
    /\ Returned(1) /\ frame[1].round = 2
    /\ image[1].storage = "Disk" /\ image[1].mipMapLevel = 2
    /\ OnlyLevel0Cached(1, 1)
    /\ tiles[1][1].buffer.data = [origin |-> Level0Key(1, 1), halved |-> 2]
    /\ tiles[1][1].entryLocker.status = "Cached"

====
